---------------------------- MODULE Spec2Model ----------------------------
(***************************************************************************)
(* LuminS (src/lumins/file_ops.rs): the bulk operations copy_files,        *)
(* compare_and_copy_files, delete_files and delete_files_sequential, the   *)
(* deletion-order sorter sort_files, the snapshot builder get_all_files,   *)
(* the two content digests hash_file and hash_file_secure and the shared   *)
(* progress counter, over an explicit model of the two directory trees     *)
(* they act on.                                                            *)
(*                                                                         *)
(* A tree is a function from relative paths to nodes.  A path is the       *)
(* sequence of its components, so Path::components().count() is Len.       *)
(* PathBuf::from(location).join(entry.path()) resolves a relative path     *)
(* inside the tree of that location, so the tree is indexed by the         *)
(* relative path itself.  The filesystem calls of std::fs (remove_file,    *)
(* remove_dir, copy, create_dir_all, read, symlink) are the environment:   *)
(* each is modelled by the outcome POSIX gives it from the state of the    *)
(* tree (existence, kind, emptiness, chmod 000), the failures the tests of *)
(* file_ops.rs exercise.  I/O errors in the middle of a call are outside   *)
(* the model.                                                              *)
(***************************************************************************)
EXTENDS Naturals, Sequences, FiniteSets, TLC

(***************************************************************************)
(* Bounds of the model.                                                    *)
(***************************************************************************)
\* Largest number of entries in one batch.
MaxBatch == 3
\* Worker threads of the rayon pool when SEQUENTIAL is not set.
MaxWorkers == 2
\* Largest number of files, directories and symlinks in an initial tree.
MaxNodes == 3

(***************************************************************************)
(* Paths: relative paths below a base location, as component sequences.    *)
(* The universe holds a parent and its child, a grandchild, two siblings   *)
(* and an unrelated top-level path.                                        *)
(***************************************************************************)
Paths ==
  { <<"a">>, <<"b">>, <<"a", "b">>, <<"a", "c">>, <<"a", "b", "c">> }

\* Path::components().count()
ComponentCount(p) == Len(p)

\* a is a strict prefix of b: b lies below a.
IsStrictPrefix(a, b) ==
  /\ Len(a) < Len(b)
  /\ SubSeq(b, 1, Len(a)) = a

\* The paths directly inside directory p.
ChildrenOf(p) == { q \in Paths : Len(q) = Len(p) + 1 /\ IsStrictPrefix(p, q) }

AncestorsOf(p) == { q \in Paths : IsStrictPrefix(q, p) }

(***************************************************************************)
(* Nodes of a tree.  locked is chmod 000: a locked file can be neither     *)
(* read nor written, a locked directory can be neither listed, searched    *)
(* nor changed.                                                            *)
(***************************************************************************)
Absent == [kind |-> "none", content |-> <<>>, locked |-> FALSE]

DirNode(l) == [kind |-> "dir", content |-> <<>>, locked |-> l]

FileNode(c, l) == [kind |-> "file", content |-> c, locked |-> l]

\* A symlink stores its target path; the link itself carries no mode.
LinkNode(t) == [kind |-> "link", content |-> t, locked |-> FALSE]

Exists(f, p) == f[p].kind # "none"

\* Every existing path has its parent directory.
WellFormed(f) ==
  \A p \in Paths : Exists(f, p) => \A q \in AncestorsOf(p) : f[q].kind = "dir"

\* The path can be reached: no directory above it is locked.
Reachable(f, p) ==
  \A q \in AncestorsOf(p) : f[q].kind = "dir" /\ ~f[q].locked

IsEmptyDir(f, p) == \A q \in ChildrenOf(p) : ~Exists(f, q)

(***************************************************************************)
(* Entries: File, Dir and Symlink of file_ops.rs.  aux is File::size or    *)
(* Symlink::target and is empty for a Dir.                                 *)
(***************************************************************************)
EntryKinds == {"File", "Dir", "Symlink"}

Entry(k, p, x) == [kind |-> k, path |-> p, aux |-> x]

\* The target stored in the symlinks of the model: a name that resolves to
\* nothing (a dangling link).
Target == <<"t">>

\* The entry of kind k a snapshot records for path p of tree f.
EntryOf(k, f, p) ==
  CASE k = "File" -> Entry(k, p, <<Len(f[p].content)>>)
    [] k = "Dir" -> Entry(k, p, <<>>)
    [] k = "Symlink" -> Entry(k, p, Target)

VARIABLES
  op,        \* the bulk operation of this run
  flags,     \* the Flag set of parse.rs
  batch,     \* the entries handed to the operation
  src,       \* the tree at the source location (copy, compare)
  fs0,       \* the tree at dest / location when the operation starts
  fs,        \* the tree at dest / location
  given,     \* the Vec handed to delete_files_sequential
  viaSorter, \* given was produced by sort_files
  st,        \* per entry: where its closure / loop iteration stands
  result,    \* per entry: the log line written ("none" before it)
  attempts,  \* delete_files_sequential: the entries in the order removed
  copied,    \* per entry: the calls of copy_file made for it
  progress,  \* PROGRESS_BAR position
  phase,     \* the bulk operation in progress, counted from 1
  base,      \* PROGRESS_BAR position when the operation in progress started
  flags0,    \* the Flag set of the operation before this one
  root,      \* the node at the location get_all_files is called on
  snap,      \* the results of the get_all_files calls made, in order
  digest,    \* the hash_file and hash_file_secure calls made, with results
  args,      \* parse_args: the subcommand, its values and its options
  parsed     \* parse_args: the Result returned, << >> before the call

vars ==
  << op, flags, batch, src, fs0, fs, given, viaSorter, st, result, attempts,
     copied, progress, phase, base, flags0, root, snap, digest, args,
     parsed >>


(***************************************************************************)
(* The environment: std::fs::remove_file and std::fs::remove_dir.          *)
(***************************************************************************)
\* unlink(2): the path is a file or a symlink in a reachable directory.
RemoveFileOk(f, p) ==
  /\ f[p].kind \in {"file", "link"}
  /\ Reachable(f, p)

\* rmdir(2): the path is an empty directory in a reachable directory.
RemoveDirOk(f, p) ==
  /\ f[p].kind = "dir"
  /\ Reachable(f, p)
  /\ IsEmptyDir(f, p)

Unlink(f, p) == [f EXCEPT ![p] = Absent]

(***************************************************************************)
(* FileOps::remove of File, Dir and Symlink: the call either removes the   *)
(* path and logs at info level ("ok"), or logs the error ("err") and       *)
(* returns; nothing is propagated to the caller.                           *)
(***************************************************************************)
\* Bug variant of File::remove: after the file, its directory is removed
\* too when that leaves it empty.
File_remove_prune(f, p) ==
  IF RemoveFileOk(f, p)
  THEN [fs |-> [q \in Paths |->
                  IF q = p THEN Absent
                  ELSE IF /\ Len(q) + 1 = Len(p) /\ IsStrictPrefix(q, p)
                          /\ \A c \in ChildrenOf(q) \ {p} : ~Exists(f, c)
                       THEN Absent ELSE f[q]],
        log |-> "ok"]
  ELSE [fs |-> f, log |-> "err"]

\* Bug variant of File::remove: the Err arm writes no log line.
File_remove_silent(f, p) ==
  IF RemoveFileOk(f, p) THEN [fs |-> Unlink(f, p), log |-> "ok"]
  ELSE [fs |-> f, log |-> "none"]

File_remove(f, p) ==
  IF RemoveFileOk(f, p) THEN [fs |-> Unlink(f, p), log |-> "ok"]
  ELSE [fs |-> f, log |-> "err"]

\* Bug variants of Dir::remove: remove_file in place of remove_dir, and
\* remove_dir_all in place of remove_dir.
Dir_remove_as_file(f, p) ==
  IF RemoveFileOk(f, p) THEN [fs |-> Unlink(f, p), log |-> "ok"]
  ELSE [fs |-> f, log |-> "err"]

Dir_remove_all(f, p) ==
  IF f[p].kind = "dir" /\ Reachable(f, p)
  THEN [fs |-> [q \in Paths |->
                  IF q = p \/ IsStrictPrefix(p, q) THEN Absent ELSE f[q]],
        log |-> "ok"]
  ELSE [fs |-> f, log |-> "err"]

\* Bug variant of Dir::remove: the directory is unlinked whether or not it
\* is empty.
Dir_remove_nonempty(f, p) ==
  IF f[p].kind = "dir" /\ Reachable(f, p)
  THEN [fs |-> Unlink(f, p), log |-> "ok"]
  ELSE [fs |-> f, log |-> "err"]

Dir_remove(f, p) ==
  IF RemoveDirOk(f, p) THEN [fs |-> Unlink(f, p), log |-> "ok"]
  ELSE [fs |-> f, log |-> "err"]

Symlink_remove(f, p) ==
  IF RemoveFileOk(f, p) THEN [fs |-> Unlink(f, p), log |-> "ok"]
  ELSE [fs |-> f, log |-> "err"]

\* file.remove(&path), dispatched on the entry's type.
EntryRemove(e, f) ==
  CASE e.kind = "File" -> File_remove(f, e.path)
    [] e.kind = "Dir" -> Dir_remove(f, e.path)
    [] e.kind = "Symlink" -> Symlink_remove(f, e.path)

(***************************************************************************)
(* sort_files: par_sort_unstable_by with the comparator                    *)
(*   |a, b| b.path().components().count().cmp(&a...count()).               *)
(* The sort is unstable, so the result is any arrangement of the entries   *)
(* that the comparator accepts as sorted.                                  *)
(***************************************************************************)
Cmp(x, y) == IF x < y THEN "Less" ELSE IF x = y THEN "Equal" ELSE "Greater"

\* Bug variant of the comparator: a.cmp(b), ascending.
SortCompareAscending(a, b) ==
  Cmp(ComponentCount(a.path), ComponentCount(b.path))

\* Bug variant of the comparator: every two entries compare equal.
SortCompareConstant(a, b) == "Equal"

SortCompare(a, b) ==
  Cmp(ComponentCount(b.path), ComponentCount(a.path))

\* All arrangements of the set S as a sequence without repetition.
Arrangements(S) ==
  { s \in [1..Cardinality(S) -> S] :
      \A i, j \in 1..Cardinality(S) : i # j => s[i] # s[j] }

IsSortedBy(s) ==
  \A i, j \in 1..Len(s) : i < j => SortCompare(s[i], s[j]) # "Greater"

\* Bug variant of sort_files: the collected Vec is returned unsorted.
sort_files_unsorted(S) == Arrangements(S)

\* Bug variant of sort_files: the sorted Vec is deduplicated by component
\* count (dedup_by_key), which keeps one entry of every depth.
sort_files_dedup(S) ==
  { s \in UNION { Arrangements(T) : T \in SUBSET S } :
      /\ IsSortedBy(s)
      /\ \A i, j \in 1..Len(s) :
           i # j => ComponentCount(s[i].path) # ComponentCount(s[j].path)
      /\ \A e \in S :
           \E i \in 1..Len(s) :
             ComponentCount(s[i].path) = ComponentCount(e.path) }

sort_files(S) == { s \in Arrangements(S) : IsSortedBy(s) }

(***************************************************************************)
(* The worker pool and the progress counter.                               *)
(***************************************************************************)
\* Bug variant of set_env: RAYON_NUM_THREADS is left alone.
NumThreadsUnset == MaxWorkers

\* set_env: SEQUENTIAL sets RAYON_NUM_THREADS to 1.
NumThreads == IF "SEQUENTIAL" \in flags THEN 1 ELSE MaxWorkers

\* The closures that have made their filesystem call and not yet returned.
InFlight == { e \in batch : st[e] \notin {"todo", "done"} }

\* Bug variant of the counter: a closure's units are added twice.
ProgressIncTwice(pos, n) == pos + n + n

\* PROGRESS_BAR.inc(n): one atomic addition.
ProgressInc(pos, n) == pos + n

\* Bug variant: compare_and_copy_files counts one unit per entry.
UnitsAllOne(o) == 1

\* The argument of PROGRESS_BAR.inc in the closure of each bulk operation.
Units(o) == IF o = "compare" THEN 2 ELSE 1

\* Bug variant: the Err arm propagates (unwrap, ?) and ends the batch.
ErrorAbortsBatch == \E e \in batch : result[e] = "err"

\* The Err arm of every remove and copy logs and returns: no failure of an
\* entry stops the closures of the other entries.
BatchAborted == FALSE

(***************************************************************************)
(* delete_files: files_to_delete.for_each(|file| { file.remove(&path);     *)
(* PROGRESS_BAR.inc(1); }) on the rayon pool, in no particular order.      *)
(***************************************************************************)
DeleteRemove(e) ==
  /\ op = "delete"
  /\ st[e] = "todo"
  /\ ~BatchAborted
  /\ Cardinality(InFlight) < NumThreads
  /\ fs' = EntryRemove(e, fs).fs
  /\ result' = [result EXCEPT ![e] = EntryRemove(e, fs).log]
  /\ st' = [st EXCEPT ![e] = "ran"]
  /\ UNCHANGED << phase, base, flags0, root, snap, digest, args, parsed >>
  /\ UNCHANGED << op, flags, batch, src, fs0, given, viaSorter, attempts,
                  copied, progress >>

DeleteInc(e) ==
  /\ op = "delete"
  /\ st[e] = "ran"
  /\ progress' = ProgressInc(progress, Units(op))
  /\ st' = [st EXCEPT ![e] = "done"]
  /\ UNCHANGED << phase, base, flags0, root, snap, digest, args, parsed >>
  /\ UNCHANGED << op, flags, batch, src, fs0, fs, given, viaSorter, result,
                  attempts, copied >>

(***************************************************************************)
(* delete_files_sequential: for file in files_to_delete { file.remove;     *)
(* PROGRESS_BAR.inc(1) }.  The caller builds the sequence: through         *)
(* sort_files (SortFiles) or in an order of its own (CallerOrder).         *)
(***************************************************************************)
SortFiles ==
  /\ op = "delete_seq"
  /\ given = << >>
  /\ ~viaSorter
  /\ given' \in sort_files(batch)
  /\ viaSorter' = TRUE
  /\ UNCHANGED << phase, base, flags0, root, snap, digest, args, parsed >>
  /\ UNCHANGED << op, flags, batch, src, fs0, fs, st, result, attempts,
                  copied, progress >>

CallerOrder ==
  /\ op = "delete_seq"
  /\ given = << >>
  /\ batch # {}
  /\ given' \in Arrangements(batch)
  /\ viaSorter' = FALSE
  /\ UNCHANGED << phase, base, flags0, root, snap, digest, args, parsed >>
  /\ UNCHANGED << op, flags, batch, src, fs0, fs, st, result, attempts,
                  copied, progress >>

\* The position of the loop: the entries before it have been processed.
SeqPos == Cardinality({ e \in batch : st[e] = "done" }) + 1

\* Bug variant of the loop: any entry not yet removed is taken next.
SeqNextAny(i) == i \in 1..Len(given)

\* Bug variant of the loop: the first entry is skipped
\* (files_to_delete.into_iter().skip(1)).
SeqNextSkipFirst(i) == i = SeqPos + 1

\* The entry the loop takes next.
SeqNext(i) == i = SeqPos


SeqRemove(i) ==
  /\ op = "delete_seq"
  /\ i \in 1..Len(given)
  /\ SeqNext(i)
  /\ InFlight = {}
  /\ ~BatchAborted
  /\ st[given[i]] = "todo"
  /\ fs' = EntryRemove(given[i], fs).fs
  /\ result' = [result EXCEPT ![given[i]] = EntryRemove(given[i], fs).log]
  /\ attempts' = Append(attempts, given[i])
  /\ st' = [st EXCEPT ![given[i]] = "ran"]
  /\ UNCHANGED << phase, base, flags0, root, snap, digest, args, parsed >>
  /\ UNCHANGED << op, flags, batch, src, fs0, given, viaSorter, copied,
                  progress >>

SeqInc(i) ==
  /\ op = "delete_seq"
  /\ i \in 1..Len(given)
  /\ st[given[i]] = "ran"
  /\ progress' = ProgressInc(progress, Units(op))
  /\ st' = [st EXCEPT ![given[i]] = "done"]
  /\ UNCHANGED << phase, base, flags0, root, snap, digest, args, parsed >>
  /\ UNCHANGED << op, flags, batch, src, fs0, fs, given, viaSorter, result,
                  attempts, copied >>

(***************************************************************************)
(* delete_files_sequential as a function of the tree and of the entries in *)
(* the order the iterator yields them: the tree after the loop and the     *)
(* entries whose remove took the Err arm.                                  *)
(***************************************************************************)
RECURSIVE delete_files_sequential_stop(_, _)
\* Bug variant of the loop: it ends at the first remove that fails.
delete_files_sequential_stop(f, s) ==
  IF s = << >> THEN [fs |-> f, failed |-> {}]
  ELSE IF EntryRemove(Head(s), f).log = "err"
       THEN [fs |-> f, failed |-> {Head(s)}]
       ELSE delete_files_sequential_stop(EntryRemove(Head(s), f).fs, Tail(s))

RECURSIVE delete_files_sequential(_, _)
delete_files_sequential(f, s) ==
  IF s = << >> THEN [fs |-> f, failed |-> {}]
  ELSE LET r == EntryRemove(Head(s), f)
           rest == delete_files_sequential(r.fs, Tail(s))
       IN [fs |-> rest.fs,
           failed |-> rest.failed \cup
                        (IF r.log = "err" THEN {Head(s)} ELSE {})]

(***************************************************************************)
(* Initial states of a delete run.  The tree under location holds files,   *)
(* directories and symlinks the process may modify; the batch is one       *)
(* HashSet<S> (one entry type) of at most MaxBatch paths, which need not   *)
(* exist or have the entry's type.                                         *)
(***************************************************************************)
EmptyTree == [p \in Paths |-> Absent]

PlainNodes == { Absent, DirNode(FALSE), FileNode(<<>>, FALSE), LinkNode(Target) }

NodeCount(f) == Cardinality({ p \in Paths : Exists(f, p) })

DeleteTrees ==
  { f \in [Paths -> PlainNodes] : WellFormed(f) /\ NodeCount(f) <= MaxNodes }

PathSets == { P \in SUBSET Paths : Cardinality(P) <= MaxBatch }

DeleteBatches ==
  { { EntryOf(k, EmptyTree, p) : p \in P } : k \in EntryKinds, P \in PathSets }

InitDelete ==
  /\ op \in {"delete", "delete_seq"}
  /\ flags \in SUBSET {"SEQUENTIAL"}
  /\ op = "delete_seq" => flags = {}
  /\ batch \in DeleteBatches
  /\ src = EmptyTree
  /\ fs0 \in DeleteTrees
  /\ fs = fs0
  /\ given = << >>
  /\ viaSorter = FALSE
  /\ st = [e \in batch |-> "todo"]
  /\ result = [e \in batch |-> "none"]
  /\ attempts = << >>
  /\ copied = [e \in batch |-> 0]
  /\ progress = 0
  /\ phase = 1
  /\ base = 0
  /\ flags0 = flags
  /\ root = DirNode(FALSE)
  /\ snap = << >>
  /\ digest = {}
  /\ args = << >>
  /\ parsed = << >>

NextDelete ==
  \/ \E e \in batch : DeleteRemove(e)
  \/ \E e \in batch : DeleteInc(e)
  \/ SortFiles
  \/ CallerOrder
  \/ \E i \in 1..MaxBatch : SeqRemove(i)
  \/ \E i \in 1..MaxBatch : SeqInc(i)

SpecDelete == InitDelete /\ [][NextDelete]_vars

\* The operation has returned: every closure / iteration has finished.
Done == \A e \in batch : st[e] = "done"


(***************************************************************************)
(* File contents are byte strings.  seahash::hash maps a byte string to    *)
(* 64 bits, so it cannot tell all byte strings apart; the model keeps that *)
(* with FastRange digests for more than FastRange contents: some contents  *)
(* of the model share a digest, as some byte strings do under seahash      *)
(* (which ones is the model's choice, not seahash's).  BLAKE2b is taken as *)
(* collision-free: its digest is modelled by an injective code of the      *)
(* bytes.  An Option is a sequence: None is << >>, Some(x) is <<x>>.       *)
(***************************************************************************)
\* Longest file content.
MaxLen == 1
\* Number of distinct values of the fast digest.
FastRange == 2

Bytes == {0, 1}

Contents == UNION { [1..n -> Bytes] : n \in 0..MaxLen }

RECURSIVE ByteSum(_)
ByteSum(c) == IF c = << >> THEN 0 ELSE Head(c) + ByteSum(Tail(c))

seahash(c) == (Len(c) + ByteSum(c)) % FastRange

RECURSIVE blake2b(_)
blake2b(c) ==
  IF c = << >> THEN 0
  ELSE (Head(c) + 1) + (Cardinality(Bytes) + 1) * blake2b(Tail(c))

None == << >>

Some(x) == << x >>

(***************************************************************************)
(* The environment: std::fs::read / File::open, std::fs::copy,             *)
(* std::fs::create_dir_all and std::os::unix::fs::symlink.                 *)
(***************************************************************************)
\* The path is a regular file that can be opened for reading.
Readable(f, p) ==
  /\ f[p].kind = "file"
  /\ ~f[p].locked
  /\ Reachable(f, p)

\* open(O_WRONLY | O_CREAT | O_TRUNC): the path is free in a reachable
\* directory, or is a writable file there.
Writable(f, p) ==
  /\ Reachable(f, p)
  /\ \/ f[p].kind = "none"
     \/ f[p].kind = "file" /\ ~f[p].locked

\* fs::copy writes through a symlink: the bytes land in the link's target,
\* which is outside the path universe, and the link stays.
WritesThroughLink(f, p) ==
  /\ Reachable(f, p)
  /\ f[p].kind = "link"

\* create_dir_all: every path above is absent or a directory that can be
\* searched and written, and the path itself is absent or a directory.
CreateDirAllOk(f, p) ==
  /\ \A q \in AncestorsOf(p) :
       \/ f[q].kind = "none"
       \/ f[q].kind = "dir" /\ ~f[q].locked
  /\ f[p].kind \in {"none", "dir"}

\* symlink(2) never replaces: the path is free in a reachable directory.
SymlinkOk(f, p) ==
  /\ Reachable(f, p)
  /\ f[p].kind = "none"

(***************************************************************************)
(* FileOps::copy of File, Dir and Symlink, and copy_file, which joins the  *)
(* two locations with the entry's path and dispatches.  s is the source    *)
(* tree, f the destination tree.                                           *)
(***************************************************************************)
\* Bug variant of File::copy: the destination is created and truncated
\* before the source is opened.
File_copy_create_first(e, s, f) ==
  IF Writable(f, e.path)
  THEN IF Readable(s, e.path)
       THEN [fs |-> [f EXCEPT ![e.path] = FileNode(s[e.path].content, FALSE)],
             log |-> "ok"]
       ELSE [fs |-> [f EXCEPT ![e.path] = FileNode(<< >>, FALSE)],
             log |-> "err"]
  ELSE [fs |-> f, log |-> "err"]

\* Bug variant of File::copy: the destination is created or truncated but
\* the bytes are not written.
File_copy_truncate_only(e, s, f) ==
  IF ~Readable(s, e.path) THEN [fs |-> f, log |-> "err"]
  ELSE IF WritesThroughLink(f, e.path) THEN [fs |-> f, log |-> "ok"]
  ELSE IF ~Writable(f, e.path) THEN [fs |-> f, log |-> "err"]
  ELSE [fs |-> [f EXCEPT ![e.path] = FileNode(<< >>, FALSE)], log |-> "ok"]

\* Bug variant of File::copy: the destination is opened with create_new, so
\* an existing destination is an error.
File_copy_no_overwrite(e, s, f) ==
  IF ~Readable(s, e.path) THEN [fs |-> f, log |-> "err"]
  ELSE IF Reachable(f, e.path) /\ f[e.path].kind = "none"
       THEN [fs |-> [f EXCEPT ![e.path] = FileNode(s[e.path].content, FALSE)],
             log |-> "ok"]
       ELSE [fs |-> f, log |-> "err"]

\* fs::copy opens the source, then creates or truncates the destination,
\* copies the bytes and gives the destination the source's mode.
File_copy(e, s, f) ==
  IF ~Readable(s, e.path) THEN [fs |-> f, log |-> "err"]
  ELSE IF WritesThroughLink(f, e.path) THEN [fs |-> f, log |-> "ok"]
  ELSE IF ~Writable(f, e.path) THEN [fs |-> f, log |-> "err"]
  ELSE [fs |-> [f EXCEPT ![e.path] = FileNode(s[e.path].content, FALSE)],
        log |-> "ok"]

\* Bug variant of Dir::copy: fs::create_dir, which needs the parent.
Dir_copy_create_dir(e, s, f) ==
  IF Reachable(f, e.path) /\ f[e.path].kind = "none"
  THEN [fs |-> [f EXCEPT ![e.path] = DirNode(FALSE)], log |-> "ok"]
  ELSE [fs |-> f, log |-> "err"]

\* Bug variant of Dir::copy: an existing directory is left alone, a missing
\* one is created only below an existing parent (no ancestors are made).
Dir_copy_parent_only(e, s, f) ==
  IF f[e.path].kind = "dir" /\ Reachable(f, e.path)
  THEN [fs |-> f, log |-> "ok"]
  ELSE IF f[e.path].kind = "none" /\ Reachable(f, e.path)
       THEN [fs |-> [f EXCEPT ![e.path] = DirNode(FALSE)], log |-> "ok"]
       ELSE [fs |-> f, log |-> "err"]

Dir_copy(e, s, f) ==
  IF CreateDirAllOk(f, e.path)
  THEN [fs |-> [q \in Paths |->
                  IF (q = e.path \/ IsStrictPrefix(q, e.path))
                     /\ f[q].kind = "none"
                  THEN DirNode(FALSE) ELSE f[q]],
        log |-> "ok"]
  ELSE [fs |-> f, log |-> "err"]

\* Bug variant of Symlink::copy: a file or link in the way is removed first
\* (remove_file(dest) before symlink).
Symlink_copy_replace(e, s, f) ==
  IF Reachable(f, e.path) /\ f[e.path].kind \in {"none", "file", "link"}
  THEN [fs |-> [f EXCEPT ![e.path] = LinkNode(e.aux)], log |-> "ok"]
  ELSE [fs |-> f, log |-> "err"]

Symlink_copy(e, s, f) ==
  IF SymlinkOk(f, e.path)
  THEN [fs |-> [f EXCEPT ![e.path] = LinkNode(e.aux)], log |-> "ok"]
  ELSE [fs |-> f, log |-> "err"]

copy_file(e, s, f) ==
  CASE e.kind = "File" -> File_copy(e, s, f)
    [] e.kind = "Dir" -> Dir_copy(e, s, f)
    [] e.kind = "Symlink" -> Symlink_copy(e, s, f)

(***************************************************************************)
(* hash_file and hash_file_secure: the digest of the file at               *)
(* location + path, None when it cannot be opened or read.                 *)
(***************************************************************************)
\* Bug variant of hash_file: a file that cannot be read is hashed as empty
\* (fs::read(file).unwrap_or_default()).
hash_file_default(e, f) ==
  IF Readable(f, e.path) THEN Some(seahash(f[e.path].content))
  ELSE Some(seahash(<< >>))

hash_file(e, f) ==
  IF Readable(f, e.path) THEN Some(seahash(f[e.path].content)) ELSE None

\* Bug variant of hash_file_secure: the path is hashed with the content.
hash_file_secure_with_path(e, f) ==
  IF Readable(f, e.path)
  THEN Some(blake2b(f[e.path].content) + 100 * Len(e.path))
  ELSE None

hash_file_secure(e, f) ==
  IF Readable(f, e.path) THEN Some(blake2b(f[e.path].content)) ELSE None

(***************************************************************************)
(* compare_and_copy_file: hash the source copy; if that is None, copy and  *)
(* return; else hash the destination copy and copy when the two Options    *)
(* differ.  A skipped entry writes no log line.                            *)
(***************************************************************************)
\* Bug variant of the comparison: every entry is copied.
DigestsDifferAlways(hs, hd) == TRUE

\* Bug variant of the comparison: no entry with two digests is copied.
DigestsDifferNever(hs, hd) == FALSE

\* src_file_hash != dest_file_hash
DigestsDiffer(hs, hd) == hs # hd

EntryHash(e, f, fl) ==
  IF "SECURE" \in fl THEN hash_file_secure(e, f) ELSE hash_file(e, f)

Copied(r) == [fs |-> r.fs, log |-> r.log, copies |-> 1]

Skipped(f) == [fs |-> f, log |-> "none", copies |-> 0]

\* Bug variant: no early return when the source digest is None, so two None
\* digests compare equal.
compare_and_copy_file_no_return(e, s, f, fl) ==
  IF DigestsDiffer(EntryHash(e, s, fl), EntryHash(e, f, fl))
  THEN Copied(copy_file(e, s, f))
  ELSE Skipped(f)

compare_and_copy_file(e, s, f, fl) ==
  IF EntryHash(e, s, fl) = None THEN Copied(copy_file(e, s, f))
  ELSE IF DigestsDiffer(EntryHash(e, s, fl), EntryHash(e, f, fl))
       THEN Copied(copy_file(e, s, f))
       ELSE Skipped(f)

(***************************************************************************)
(* copy_files: for_each(|file| { copy_file(file, src, dest);               *)
(* PROGRESS_BAR.inc(1); }) on the rayon pool.                              *)
(***************************************************************************)
CopyFile(e) ==
  /\ op = "copy"
  /\ st[e] = "todo"
  /\ ~BatchAborted
  /\ Cardinality(InFlight) < NumThreads
  /\ fs' = copy_file(e, src, fs).fs
  /\ result' = [result EXCEPT ![e] = copy_file(e, src, fs).log]
  /\ copied' = [copied EXCEPT ![e] = @ + 1]
  /\ st' = [st EXCEPT ![e] = "ran"]
  /\ UNCHANGED << phase, base, flags0, root, snap, digest, args, parsed >>
  /\ UNCHANGED << op, flags, batch, src, fs0, given, viaSorter, attempts,
                  progress >>

CopyInc(e) ==
  /\ op = "copy"
  /\ st[e] = "ran"
  /\ progress' = ProgressInc(progress, Units(op))
  /\ st' = [st EXCEPT ![e] = "done"]
  /\ UNCHANGED << phase, base, flags0, root, snap, digest, args, parsed >>
  /\ UNCHANGED << op, flags, batch, src, fs0, fs, given, viaSorter, result,
                  attempts, copied >>

(***************************************************************************)
(* compare_and_copy_files: for_each(|file| { compare_and_copy_file(file,   *)
(* src, dest, flags); PROGRESS_BAR.inc(2); }) on the rayon pool.           *)
(***************************************************************************)
CompareAndCopyFile(e) ==
  /\ op = "compare"
  /\ st[e] = "todo"
  /\ ~BatchAborted
  /\ Cardinality(InFlight) < NumThreads
  /\ fs' = compare_and_copy_file(e, src, fs, flags).fs
  /\ result' =
       [result EXCEPT ![e] = compare_and_copy_file(e, src, fs, flags).log]
  /\ copied' =
       [copied EXCEPT ![e] = @ + compare_and_copy_file(e, src, fs, flags).copies]
  /\ st' = [st EXCEPT ![e] = "ran"]
  /\ UNCHANGED << phase, base, flags0, root, snap, digest, args, parsed >>
  /\ UNCHANGED << op, flags, batch, src, fs0, given, viaSorter, attempts,
                  progress >>

CompareInc(e) ==
  /\ op = "compare"
  /\ st[e] = "ran"
  /\ progress' = ProgressInc(progress, Units(op))
  /\ st' = [st EXCEPT ![e] = "done"]
  /\ UNCHANGED << phase, base, flags0, root, snap, digest, args, parsed >>
  /\ UNCHANGED << op, flags, batch, src, fs0, fs, given, viaSorter, result,
                  attempts, copied >>

(***************************************************************************)
(* compare_and_copy_files as a function of the two trees, the Flag set and *)
(* the entries in the order their closures run: the destination tree at    *)
(* the end and the entries for which copy_file was called.                 *)
(***************************************************************************)
RECURSIVE compare_and_copy_files(_, _, _, _)
compare_and_copy_files(seq, s, f, fl) ==
  IF seq = << >> THEN [fs |-> f, copied |-> {}]
  ELSE LET r == compare_and_copy_file(Head(seq), s, f, fl)
           rest == compare_and_copy_files(Tail(seq), s, r.fs, fl)
       IN [fs |-> rest.fs,
           copied |-> rest.copied \cup
                        (IF r.copies = 1 THEN {Head(seq)} ELSE {})]

(***************************************************************************)
(* Initial states of a copy or compare-and-copy run.                       *)
(*                                                                         *)
(* A batch holds at most MaxCopy entries of one type.                      *)
(*                                                                         *)
(* File entries (copy_files, compare_and_copy_files): paths of FilePaths.  *)
(* At each of them the source holds nothing, a readable file of any        *)
(* content or an unreadable file, the destination nothing, a writable file *)
(* of any content or a locked file.  A directory above an entry is absent  *)
(* or usable in the source (a snapshot lists nothing below a directory it  *)
(* cannot read) and absent, usable or locked in the destination.           *)
(*                                                                         *)
(* Dir or Symlink entries (copy_files): any paths; the destination is any  *)
(* tree of at most MaxNodes directories (usable or locked), files and      *)
(* symlinks.  Dir::copy and Symlink::copy do not read the source tree.     *)
(***************************************************************************)
\* Largest number of entries in a copy or compare batch.
MaxCopy == 2

FilePaths == { <<"b">>, <<"a", "b">> }

\* The content of a file that cannot be read (it is never observed).
LockedContent == << 0 >>

SrcFileNodes ==
  {Absent} \cup { FileNode(c, FALSE) : c \in Contents }
    \cup { FileNode(LockedContent, TRUE) }

DestFileNodes ==
  {Absent} \cup { FileNode(c, FALSE) : c \in Contents }
    \cup { FileNode(LockedContent, TRUE) }

SrcDirNodes == { Absent, DirNode(FALSE) }

DestDirNodes == { Absent, DirNode(FALSE), DirNode(TRUE) }

Above(P) == UNION { AncestorsOf(p) : p \in P }

\* The tree that holds g's nodes and nothing else.
TreeOf(g) == [p \in Paths |-> IF p \in DOMAIN g THEN g[p] ELSE Absent]

\* The trees with nodes of N at the paths P, directories of D above them
\* and nothing elsewhere.
TreesAt(P, N, D) ==
  { f \in { TreeOf(g) : g \in [P \cup Above(P) -> N \cup D] } :
      /\ WellFormed(f)
      /\ \A p \in P : f[p] \in N
      /\ \A p \in Above(P) \ P : f[p] \in D }

FilePathSets == { P \in SUBSET FilePaths : Cardinality(P) <= MaxCopy }

CopyPathSets == { P \in SUBSET Paths : Cardinality(P) <= MaxCopy }

InitCopyFiles ==
  /\ op \in {"copy", "compare"}
  /\ flags \in SUBSET {"SECURE", "SEQUENTIAL"}
  /\ op = "copy" => "SECURE" \notin flags
  /\ \E P \in FilePathSets :
       /\ src \in TreesAt(P, SrcFileNodes, SrcDirNodes)
       /\ fs0 \in TreesAt(P, DestFileNodes, DestDirNodes)
       /\ batch = { EntryOf("File", src, p) : p \in P }

MixedNodes == PlainNodes \cup { DirNode(TRUE) }

MixedTrees ==
  { f \in [Paths -> MixedNodes] : WellFormed(f) /\ NodeCount(f) <= MaxNodes }

\* The targets a Symlink entry of a batch may carry: the one the links of
\* the destination tree have, and another one.
LinkTargets == { Target, << "a" >> }

InitCopyOthers ==
  /\ op = "copy"
  /\ flags \in SUBSET {"SEQUENTIAL"}
  /\ src = EmptyTree
  /\ fs0 \in MixedTrees
  /\ \/ \E P \in CopyPathSets : batch = { EntryOf("Dir", src, p) : p \in P }
     \/ \E P \in CopyPathSets, t \in LinkTargets :
          batch = { Entry("Symlink", p, t) : p \in P }

InitCopy ==
  /\ InitCopyFiles \/ InitCopyOthers
  /\ fs = fs0
  /\ given = << >>
  /\ viaSorter = FALSE
  /\ st = [e \in batch |-> "todo"]
  /\ result = [e \in batch |-> "none"]
  /\ attempts = << >>
  /\ copied = [e \in batch |-> 0]
  /\ progress = 0
  /\ phase = 1
  /\ base = 0
  /\ flags0 = flags
  /\ root = DirNode(FALSE)
  /\ snap = << >>
  /\ digest = {}
  /\ args = << >>
  /\ parsed = << >>

NextCopy ==
  \/ \E e \in batch : CopyFile(e)
  \/ \E e \in batch : CopyInc(e)
  \/ \E e \in batch : CompareAndCopyFile(e)
  \/ \E e \in batch : CompareInc(e)

SpecCopy == InitCopy /\ [][NextCopy]_vars

(***************************************************************************)
(* compare_and_copy_files called twice on the same entries and locations,  *)
(* as test_compare_and_copy_files::single_same does: the second call       *)
(* starts when the first has returned, with a Flag set of the caller's     *)
(* choice, and nothing else touches the two trees in between.              *)
(***************************************************************************)
Rerun ==
  /\ op = "compare"
  /\ phase = 1
  /\ Done
  /\ phase' = 2
  /\ base' = progress
  /\ flags0' = flags
  /\ flags' \in { flags \cup {"SECURE"}, flags \ {"SECURE"} }
  /\ st' = [e \in batch |-> "todo"]
  /\ result' = [e \in batch |-> "none"]
  /\ copied' = [e \in batch |-> 0]
  /\ UNCHANGED << op, batch, src, fs0, fs, given, viaSorter, attempts,
                  progress, root, snap, digest,
                  args, parsed >>

InitRerun == InitCopy /\ op = "compare"

NextRerun ==
  \/ \E e \in batch : CompareAndCopyFile(e)
  \/ \E e \in batch : CompareInc(e)
  \/ Rerun

SpecRerun == InitRerun /\ [][NextRerun]_vars

(***************************************************************************)
(* get_all_files: the snapshot (FileSets) of the tree under a location.    *)
(*                                                                         *)
(* The location itself is the node root, at the empty path.  read_dir      *)
(* needs read permission on the directory; DirEntry::metadata (an lstat,   *)
(* which does not follow symlinks) and every step below need search        *)
(* permission on it, whatever the mode of the entry itself.  A directory   *)
(* node's content is its mode restriction: << >> for none, ListOnly for a  *)
(* directory that can be listed but not searched (mode r--).  A special    *)
(* node is a FIFO, socket or device: neither is_dir nor is_file, and       *)
(* read_link fails on it.                                                  *)
(***************************************************************************)
ListOnly == << 4 >>

DirListOnly == [kind |-> "dir", content |-> ListOnly, locked |-> FALSE]

SpecialNode == [kind |-> "special", content |-> << >>, locked |-> FALSE]

NodeAt(f, r, p) == IF p = << >> THEN r ELSE f[p]

\* src.read_dir() succeeds.
ReadDirOk(n) == n.kind = "dir" /\ ~n.locked

\* file.metadata() succeeds for the entries of directory n.
MetadataOk(n) == n.kind = "dir" /\ ~n.locked /\ n.content # ListOnly

\* FileSets::with(files, dirs, symlinks), as Ok or Err of the Result.
FileSets(fi, di, sy) ==
  [ok |-> TRUE, files |-> fi, dirs |-> di, symlinks |-> sy]

ReadDirErr == [ok |-> FALSE, files |-> {}, dirs |-> {}, symlinks |-> {}]

\* Bug variant of the traversal: subdirectories are recorded but not entered.
get_all_files_helper_flat(f, r, p) ==
  IF ~ReadDirOk(NodeAt(f, r, p)) THEN ReadDirErr
  ELSE
    LET seen == { q \in ChildrenOf(p) :
                    Exists(f, q) /\ MetadataOk(NodeAt(f, r, p)) }
    IN FileSets(
         { Entry("File", q, << Len(f[q].content) >>) :
             q \in { x \in seen : f[x].kind = "file" } },
         { Entry("Dir", q, << >>) : q \in { x \in seen : f[x].kind = "dir" } },
         { Entry("Symlink", q, f[q].content) :
             q \in { x \in seen : f[x].kind = "link" } })

\* Bug variant of the traversal: the prefix stripped from an entry's path is
\* the directory being read, not base, so every entry is recorded under its
\* file name alone.
RECURSIVE get_all_files_helper_strip_src(_, _, _)
get_all_files_helper_strip_src(f, r, p) ==
  IF ~ReadDirOk(NodeAt(f, r, p)) THEN ReadDirErr
  ELSE
    LET seen == { q \in ChildrenOf(p) :
                    Exists(f, q) /\ MetadataOk(NodeAt(f, r, p)) }
        subdirs == { q \in seen : f[q].kind = "dir" }
        sub == [q \in subdirs |-> get_all_files_helper_strip_src(f, r, q)]
        merged == { q \in subdirs : sub[q].ok }
        name(q) == << q[Len(q)] >>
    IN FileSets(
         { Entry("File", name(q), << Len(f[q].content) >>) :
             q \in { x \in seen : f[x].kind = "file" } }
           \cup UNION { sub[q].files : q \in merged },
         { Entry("Dir", name(q), << >>) : q \in subdirs }
           \cup UNION { sub[q].dirs : q \in merged },
         { Entry("Symlink", name(q), f[q].content) :
             q \in { x \in seen : f[x].kind = "link" } }
           \cup UNION { sub[q].symlinks : q \in merged })

\* Bug variant of the traversal: the Err of a recursive call is returned to
\* the caller (get_all_files_helper(..)? in place of the match).
RECURSIVE get_all_files_helper_propagate(_, _, _)
get_all_files_helper_propagate(f, r, p) ==
  IF ~ReadDirOk(NodeAt(f, r, p)) THEN ReadDirErr
  ELSE
    LET seen == { q \in ChildrenOf(p) :
                    Exists(f, q) /\ MetadataOk(NodeAt(f, r, p)) }
        subdirs == { q \in seen : f[q].kind = "dir" }
        sub == [q \in subdirs |-> get_all_files_helper_propagate(f, r, q)]
    IN IF \E q \in subdirs : ~sub[q].ok THEN ReadDirErr
       ELSE FileSets(
         { Entry("File", q, << Len(f[q].content) >>) :
             q \in { x \in seen : f[x].kind = "file" } }
           \cup UNION { sub[q].files : q \in subdirs },
         { Entry("Dir", q, << >>) : q \in subdirs }
           \cup UNION { sub[q].dirs : q \in subdirs },
         { Entry("Symlink", q, f[q].content) :
             q \in { x \in seen : f[x].kind = "link" } }
           \cup UNION { sub[q].symlinks : q \in subdirs })

\* Bug variant of the traversal: an entry whose link cannot be read is
\* recorded as a Symlink with an empty target (read_link(..).unwrap_or_default()).
RECURSIVE get_all_files_helper_default_target(_, _, _)
get_all_files_helper_default_target(f, r, p) ==
  IF ~ReadDirOk(NodeAt(f, r, p)) THEN ReadDirErr
  ELSE
    LET seen == { q \in ChildrenOf(p) :
                    Exists(f, q) /\ MetadataOk(NodeAt(f, r, p)) }
        subdirs == { q \in seen : f[q].kind = "dir" }
        sub == [q \in subdirs |-> get_all_files_helper_default_target(f, r, q)]
        merged == { q \in subdirs : sub[q].ok }
    IN FileSets(
         { Entry("File", q, << Len(f[q].content) >>) :
             q \in { x \in seen : f[x].kind = "file" } }
           \cup UNION { sub[q].files : q \in merged },
         { Entry("Dir", q, << >>) : q \in subdirs }
           \cup UNION { sub[q].dirs : q \in merged },
         { Entry("Symlink", q, f[q].content) :
             q \in { x \in seen : f[x].kind \in {"link", "special"} } }
           \cup UNION { sub[q].symlinks : q \in merged })

\* Bug variant of the traversal: a subdirectory is recorded only when its
\* recursive call returned Ok.
RECURSIVE get_all_files_helper_insert_after(_, _, _)
get_all_files_helper_insert_after(f, r, p) ==
  IF ~ReadDirOk(NodeAt(f, r, p)) THEN ReadDirErr
  ELSE
    LET seen == { q \in ChildrenOf(p) :
                    Exists(f, q) /\ MetadataOk(NodeAt(f, r, p)) }
        subdirs == { q \in seen : f[q].kind = "dir" }
        sub == [q \in subdirs |-> get_all_files_helper_insert_after(f, r, q)]
        merged == { q \in subdirs : sub[q].ok }
    IN FileSets(
         { Entry("File", q, << Len(f[q].content) >>) :
             q \in { x \in seen : f[x].kind = "file" } }
           \cup UNION { sub[q].files : q \in merged },
         { Entry("Dir", q, << >>) : q \in merged }
           \cup UNION { sub[q].dirs : q \in merged },
         { Entry("Symlink", q, f[q].content) :
             q \in { x \in seen : f[x].kind = "link" } }
           \cup UNION { sub[q].symlinks : q \in merged })

\* Bug variant of the traversal: an entry is classified with fs::metadata,
\* which resolves symlinks, so a link to a directory is recorded as a Dir and
\* the entries of its target are reported below the link's path, and a
\* dangling link fails the metadata call and is skipped.
RECURSIVE get_all_files_helper_follow(_, _, _)
get_all_files_helper_follow(f, r, p) ==
  IF ~ReadDirOk(NodeAt(f, r, p)) THEN ReadDirErr
  ELSE
    LET listed == { q \in ChildrenOf(p) : Exists(f, q) }
        seen == { q \in listed : MetadataOk(NodeAt(f, r, p)) }
        subdirs == { q \in seen : f[q].kind = "dir" }
        sub == [q \in subdirs |-> get_all_files_helper_follow(f, r, q)]
        merged == { q \in subdirs : sub[q].ok }
        dirlinks == { q \in seen : /\ f[q].kind = "link"
                                   /\ f[q].content \in Paths
                                   /\ f[f[q].content].kind = "dir" }
        under(q) == { c \in ChildrenOf(f[q].content) :
                        Exists(f, c) /\ ReadDirOk(f[f[q].content]) }
        moved(q, c) == q \o SubSeq(c, Len(f[q].content) + 1, Len(c))
    IN FileSets(
         { Entry("File", q, << Len(f[q].content) >>) :
             q \in { x \in seen : f[x].kind = "file" } }
           \cup UNION { sub[q].files : q \in merged }
           \cup UNION { { Entry("File", moved(q, c), << Len(f[c].content) >>) :
                            c \in { x \in under(q) : f[x].kind = "file" } } :
                        q \in dirlinks },
         { Entry("Dir", q, << >>) : q \in subdirs \cup dirlinks }
           \cup UNION { sub[q].dirs : q \in merged }
           \cup UNION { { Entry("Dir", moved(q, c), << >>) :
                            c \in { x \in under(q) : f[x].kind = "dir" } } :
                        q \in dirlinks },
         UNION { sub[q].symlinks : q \in merged })

RECURSIVE get_all_files_helper(_, _, _)
get_all_files_helper(f, r, p) ==
  IF ~ReadDirOk(NodeAt(f, r, p)) THEN ReadDirErr
  ELSE
    LET listed == { q \in ChildrenOf(p) : Exists(f, q) }
        seen == { q \in listed : MetadataOk(NodeAt(f, r, p)) }
        subdirs == { q \in seen : f[q].kind = "dir" }
        sub == [q \in subdirs |-> get_all_files_helper(f, r, q)]
        merged == { q \in subdirs : sub[q].ok }
    IN FileSets(
         { Entry("File", q, << Len(f[q].content) >>) :
             q \in { x \in seen : f[x].kind = "file" } }
           \cup UNION { sub[q].files : q \in merged },
         { Entry("Dir", q, << >>) : q \in subdirs }
           \cup UNION { sub[q].dirs : q \in merged },
         { Entry("Symlink", q, f[q].content) :
             q \in { x \in seen : f[x].kind = "link" } }
           \cup UNION { sub[q].symlinks : q \in merged })

get_all_files(r, f) == get_all_files_helper(f, r, << >>)

\* let file_sets = get_all_files(location)
GetAllFiles ==
  /\ op = "snapshot"
  /\ snap = << >>
  /\ snap' = << get_all_files(root, fs) >>
  /\ UNCHANGED << op, flags, batch, src, fs0, fs, given, viaSorter, st, result,
                  attempts, copied, progress, phase, base, flags0, root,
                  digest,
                  args, parsed >>

(***************************************************************************)
(* Initial states of a snapshot: the location is a directory (usable,      *)
(* list-only or locked), a file or nothing; below a directory lies any     *)
(* tree of files (readable or not), directories (usable, list-only or      *)
(* locked), symlinks (dangling, or to a directory of the tree) and special *)
(* files.                                                                  *)
(***************************************************************************)
\* The target of a symlink to the top-level directory a.
DirTarget == << "a" >>

SnapNodes ==
  { Absent, DirNode(FALSE), DirNode(TRUE), DirListOnly, SpecialNode,
    LinkNode(Target), LinkNode(DirTarget), FileNode(LockedContent, TRUE) }
    \cup { FileNode(c, FALSE) : c \in Contents }

SnapTrees == { f \in [Paths -> SnapNodes] : WellFormed(f) }

RootNodes ==
  { Absent, DirNode(FALSE), DirNode(TRUE), DirListOnly, FileNode(<< >>, FALSE) }

InitSnapshot ==
  /\ op = "snapshot"
  /\ flags = {}
  /\ flags0 = {}
  /\ batch = {}
  /\ src = EmptyTree
  /\ root \in RootNodes
  /\ fs0 \in SnapTrees
  /\ root.kind # "dir" => fs0 = EmptyTree
  /\ fs = fs0
  /\ given = << >>
  /\ viaSorter = FALSE
  /\ st = [e \in batch |-> "todo"]
  /\ result = [e \in batch |-> "none"]
  /\ attempts = << >>
  /\ copied = [e \in batch |-> 0]
  /\ progress = 0
  /\ phase = 1
  /\ base = 0
  /\ snap = << >>
  /\ digest = {}
  /\ args = << >>
  /\ parsed = << >>

NextSnapshot == GetAllFiles

SpecSnapshot == InitSnapshot /\ [][NextSnapshot]_vars

(***************************************************************************)
(* The round trip of test_copy_files::regular_files_dirs and copy_symlink: *)
(* snapshot the source tree, run copy_files on the snapshot's dirs, then   *)
(* on its files, then on its symlinks, each call returning before the next *)
(* starts, into a destination directory that was empty, and snapshot the   *)
(* destination.  Every node of the source tree can be read.                *)
(***************************************************************************)
RoundTripNodes ==
  { Absent, DirNode(FALSE), LinkNode(Target), LinkNode(DirTarget) }
    \cup { FileNode(c, FALSE) : c \in Contents }

RoundTripTrees == { f \in [Paths -> RoundTripNodes] : WellFormed(f) }

\* The batch of the n-th copy_files call: dirs, files, symlinks.
BatchOf(s, n) ==
  CASE n = 1 -> s.dirs
    [] n = 2 -> s.files
    [] n = 3 -> s.symlinks

\* get_all_files(TEST_DIR).unwrap(), and the first copy_files call begins.
SnapshotSource ==
  /\ op = "copy"
  /\ phase = 0
  /\ get_all_files(root, src).ok
  /\ snap' = << get_all_files(root, src) >>
  /\ phase' = 1
  /\ batch' = BatchOf(get_all_files(root, src), 1)
  /\ st' = [e \in batch' |-> "todo"]
  /\ result' = [e \in batch' |-> "none"]
  /\ copied' = [e \in batch' |-> 0]
  /\ UNCHANGED << op, flags, src, fs0, fs, given, viaSorter, attempts,
                  progress, base, flags0, root, digest,
                  args, parsed >>

\* One copy_files call has returned and the next begins.
NextCopyFiles ==
  /\ op = "copy"
  /\ phase \in {1, 2}
  /\ Len(snap) = 1
  /\ Done
  /\ phase' = phase + 1
  /\ base' = progress
  /\ batch' = BatchOf(snap[1], phase + 1)
  /\ st' = [e \in batch' |-> "todo"]
  /\ result' = [e \in batch' |-> "none"]
  /\ copied' = [e \in batch' |-> 0]
  /\ UNCHANGED << op, flags, src, fs0, fs, given, viaSorter, attempts,
                  progress, flags0, root, snap, digest,
                  args, parsed >>

\* get_all_files(TEST_DIR_OUT).unwrap() after the last copy_files call.
SnapshotDest ==
  /\ op = "copy"
  /\ phase = 3
  /\ Len(snap) = 1
  /\ Done
  /\ phase' = 4
  /\ snap' = Append(snap, get_all_files(root, fs))
  /\ UNCHANGED << op, flags, batch, src, fs0, fs, given, viaSorter, st, result,
                  attempts, copied, progress, base, flags0, root,
                  digest,
                  args, parsed >>

InitRoundTrip ==
  /\ op = "copy"
  /\ flags = {}
  /\ flags0 = {}
  /\ batch = {}
  /\ src \in RoundTripTrees
  /\ root = DirNode(FALSE)
  /\ fs0 = EmptyTree
  /\ fs = fs0
  /\ given = << >>
  /\ viaSorter = FALSE
  /\ st = [e \in batch |-> "todo"]
  /\ result = [e \in batch |-> "none"]
  /\ attempts = << >>
  /\ copied = [e \in batch |-> 0]
  /\ progress = 0
  /\ phase = 0
  /\ base = 0
  /\ snap = << >>
  /\ digest = {}
  /\ args = << >>
  /\ parsed = << >>

NextRoundTrip ==
  \/ SnapshotSource
  \/ \E e \in batch : CopyFile(e)
  \/ \E e \in batch : CopyInc(e)
  \/ NextCopyFiles
  \/ SnapshotDest

SpecRoundTrip == InitRoundTrip /\ [][NextRoundTrip]_vars

(***************************************************************************)
(* hash_file and hash_file_secure called on File entries at two locations. *)
(* The size an entry records need not be the length of the file now at its *)
(* path.  Each call is recorded with its result.                           *)
(***************************************************************************)
\* Largest number of hash calls recorded in one run.
MaxCalls == 2

Locations == {"src", "dest"}

\* The tree at a location.
TreeAt(loc) == IF loc = "src" THEN src ELSE fs

Call(e, loc, sec, v) ==
  [entry |-> e, location |-> loc, secure |-> sec, value |-> v]

\* hash_file(&file, location)
HashFile(e, loc) ==
  /\ op = "hash"
  /\ Cardinality(digest) < MaxCalls
  /\ digest' = digest \cup { Call(e, loc, FALSE, hash_file(e, TreeAt(loc))) }
  /\ UNCHANGED << op, flags, batch, src, fs0, fs, given, viaSorter, st, result,
                  attempts, copied, progress, phase, base, flags0, root, snap,
                  args, parsed >>

\* hash_file_secure(&file, location)
HashFileSecure(e, loc) ==
  /\ op = "hash"
  /\ Cardinality(digest) < MaxCalls
  /\ digest' =
       digest \cup { Call(e, loc, TRUE, hash_file_secure(e, TreeAt(loc))) }
  /\ UNCHANGED << op, flags, batch, src, fs0, fs, given, viaSorter, st, result,
                  attempts, copied, progress, phase, base, flags0, root, snap,
                  args, parsed >>

\* What may lie at the path of a hashed entry: nothing, a file that can or
\* cannot be read, a directory, a dangling symlink.
HashNodes == SrcFileNodes \cup { DirNode(FALSE), LinkNode(Target) }

\* The sizes File entries record.
Sizes == { << n >> : n \in 0..MaxLen }

InitHash ==
  /\ op = "hash"
  /\ flags = {}
  /\ flags0 = {}
  /\ \E P \in FilePathSets :
       /\ src \in TreesAt(P, HashNodes, DestDirNodes)
       /\ fs0 \in TreesAt(P, SrcFileNodes, SrcDirNodes)
       /\ \E sz \in [P -> Sizes] : batch = { Entry("File", p, sz[p]) : p \in P }
  /\ fs = fs0
  /\ root = DirNode(FALSE)
  /\ given = << >>
  /\ viaSorter = FALSE
  /\ st = [e \in batch |-> "todo"]
  /\ result = [e \in batch |-> "none"]
  /\ attempts = << >>
  /\ copied = [e \in batch |-> 0]
  /\ progress = 0
  /\ phase = 1
  /\ base = 0
  /\ snap = << >>
  /\ digest = {}
  /\ args = << >>
  /\ parsed = << >>

NextHash ==
  \/ \E e \in batch, loc \in Locations : HashFile(e, loc)
  \/ \E e \in batch, loc \in Locations : HashFileSecure(e, loc)

SpecHash == InitHash /\ [][NextHash]_vars

(***************************************************************************)
(* All four bulk operations.                                               *)
(***************************************************************************)
Init == InitDelete \/ InitCopy

Next == NextDelete \/ NextCopy

Spec == Init /\ [][Next]_vars

(***************************************************************************)
(* parse.rs: parse_args.  The ArgMatches give the subcommand, its SOURCE   *)
(* and DESTINATION or its TARGETs, and the options present.  The function  *)
(* computes the Flag set, builds the SubCommand, validates the directories *)
(* with fs::metadata (which resolves symlinks) and, for cp and sync,       *)
(* creates the destination with fs::create_dir_all when fs::metadata fails *)
(* for it.  A path is a sequence of components; << >> is "/".              *)
(***************************************************************************)
\* Bug variant of FLAG_NAMES: two names have changed places.
FLAG_NAMES_swapped == << "secure", "nodelete", "verbose", "sequential" >>

FLAG_NAMES == << "nodelete", "secure", "verbose", "sequential" >>

Flag_NO_DELETE == 1

Flag_SECURE == 2

Flag_VERBOSE == 4

Flag_SEQUENTIAL == 8

\* Flag::all().bits()
Flag_all == Flag_NO_DELETE + Flag_SECURE + Flag_VERBOSE + Flag_SEQUENTIAL

\* Bits of the words the flags are computed in (u32 in the code).
FlagWidth == 6

Bit(n, i) == (n \div 2^i) % 2

RECURSIVE BitOrFrom(_, _, _)
BitOrFrom(a, b, i) ==
  IF i >= FlagWidth THEN 0
  ELSE (IF Bit(a, i) = 1 \/ Bit(b, i) = 1 THEN 2^i ELSE 0)
         + BitOrFrom(a, b, i + 1)

\* a | b
BitOr(a, b) == BitOrFrom(a, b, 0)

RECURSIVE BitAndFrom(_, _, _)
BitAndFrom(a, b, i) ==
  IF i >= FlagWidth THEN 0
  ELSE (IF Bit(a, i) = 1 /\ Bit(b, i) = 1 THEN 2^i ELSE 0)
         + BitAndFrom(a, b, i + 1)

\* Flag::from_bits_truncate(bits): the bits that are no Flag are dropped.
from_bits_truncate(bits) == BitAndFrom(bits, Flag_all, 0)

\* flags.contains(flag)
Contains(fl, flag) == BitAndFrom(fl, flag, 0) = flag

\* for (i, &flag_name) in FLAG_NAMES.iter().enumerate() { if
\* args.is_present(flag_name) { flags |= Flag::from_bits_truncate(1 << i) } }
\* from the name at index i (counted from 0) on.
RECURSIVE ParseFlags(_, _, _)
ParseFlags(options, fl, i) ==
  IF i >= Len(FLAG_NAMES) THEN fl
  ELSE ParseFlags(options,
                  IF FLAG_NAMES[i + 1] \in options
                  THEN BitOr(fl, from_bits_truncate(2^i)) ELSE fl,
                  i + 1)

\* fs::metadata(path): "dir" or "file" for what the path resolves to, "err"
\* when it resolves to nothing, to something else, or cannot be reached.
metadata(f, p) ==
  IF p = << >> THEN "dir"
  ELSE IF ~Reachable(f, p) THEN "err"
  ELSE IF f[p].kind \in {"dir", "file"} THEN f[p].kind
  ELSE IF /\ f[p].kind = "link"
          /\ f[p].content \in Paths
          /\ Reachable(f, f[p].content)
          /\ f[f[p].content].kind \in {"dir", "file"}
       THEN f[f[p].content].kind
       ELSE "err"

\* The tree after a successful fs::create_dir_all(p).
create_dir_all(f, p) ==
  [q \in Paths |->
     IF (q = p \/ IsStrictPrefix(q, p)) /\ f[q].kind = "none"
     THEN DirNode(FALSE) ELSE f[q]]

\* PathBuf::file_name(): None for "/".
file_name(p) == IF p = << >> THEN None ELSE Some(p[Len(p)])

ParseOk(a, src_, dest_, type_, fl, f) ==
  [ok |-> TRUE, err |-> "", src |-> src_, dest |-> dest_,
   sub_command_type |-> type_, flags |-> fl, fs |-> f]

ParseErr(msg, f) ==
  [ok |-> FALSE, err |-> msg, src |-> None, dest |-> << >>,
   sub_command_type |-> "", flags |-> 0, fs |-> f]

\* The destination of a cp: DESTINATION joined with the source's name when
\* DESTINATION exists and the source has a name.
CopyDest(a, f) ==
  IF /\ a.cmd = "cp"
     /\ metadata(f, a.destination) # "err"
     /\ file_name(a.source) # None
  THEN a.destination \o file_name(a.source)
  ELSE a.destination

\* Bug variant of the validation: the destination must be absent or resolve
\* to a directory (create_dir_all is called whenever it is not a directory).
parse_args_dest_checked(a, f) ==
  LET fl == ParseFlags(a.options, 0, 0)
      IsDir(d) == metadata(f, d) = "dir"
  IN CASE a.cmd = "rm" ->
            IF SelectSeq(a.targets, IsDir) = << >>
            THEN ParseErr("No target directories specified", f)
            ELSE ParseOk(a, None, SelectSeq(a.targets, IsDir), "Remove", fl, f)
       [] a.cmd \in {"cp", "sync"} ->
            IF metadata(f, a.source) # "dir"
            THEN ParseErr("Source Error -- Source is not a directory", f)
            ELSE IF metadata(f, CopyDest(a, f)) = "dir"
                 THEN ParseOk(a, Some(a.source), << CopyDest(a, f) >>,
                              IF a.cmd = "cp" THEN "Copy" ELSE "Synchronize",
                              fl, f)
                 ELSE IF metadata(f, CopyDest(a, f)) = "err"
                         /\ CreateDirAllOk(f, CopyDest(a, f))
                      THEN ParseOk(a, Some(a.source), << CopyDest(a, f) >>,
                                   IF a.cmd = "cp" THEN "Copy"
                                   ELSE "Synchronize",
                                   fl, create_dir_all(f, CopyDest(a, f)))
                      ELSE ParseErr(
                             "Destination Error -- Destination could not be created",
                             f)
       [] OTHER -> ParseErr("Unknown subcommand", f)

\* Bug variant of the validation of rm: the targets are kept as given when
\* one of them is a directory.
parse_args_rm_any(a, f) ==
  LET fl == ParseFlags(a.options, 0, 0)
      IsDir(d) == metadata(f, d) = "dir"
  IN IF SelectSeq(a.targets, IsDir) = << >>
     THEN ParseErr("No target directories specified", f)
     ELSE ParseOk(a, None, a.targets, "Remove", fl, f)

parse_args(a, f) ==
  LET fl == ParseFlags(a.options, 0, 0)
      IsDir(d) == metadata(f, d) = "dir"
  IN CASE a.cmd = "rm" ->
            IF SelectSeq(a.targets, IsDir) = << >>
            THEN ParseErr("No target directories specified", f)
            ELSE ParseOk(a, None, SelectSeq(a.targets, IsDir), "Remove", fl, f)
       [] a.cmd \in {"cp", "sync"} ->
            IF metadata(f, a.source) # "dir"
            THEN ParseErr("Source Error -- Source is not a directory", f)
            ELSE IF metadata(f, CopyDest(a, f)) # "err"
                 THEN ParseOk(a, Some(a.source), << CopyDest(a, f) >>,
                              IF a.cmd = "cp" THEN "Copy" ELSE "Synchronize",
                              fl, f)
                 ELSE IF CreateDirAllOk(f, CopyDest(a, f))
                      THEN ParseOk(a, Some(a.source), << CopyDest(a, f) >>,
                                   IF a.cmd = "cp" THEN "Copy"
                                   ELSE "Synchronize",
                                   fl, create_dir_all(f, CopyDest(a, f)))
                      ELSE ParseErr(
                             "Destination Error -- Destination could not be created",
                             f)
       [] OTHER -> ParseErr("Unknown subcommand", f)

\* let result = parse_args(&args)
ParseArgs ==
  /\ op = "parse"
  /\ parsed = << >>
  /\ parsed' = << parse_args(args, fs) >>
  /\ fs' = parse_args(args, fs).fs
  /\ UNCHANGED << op, flags, batch, src, fs0, given, viaSorter, st, result,
                  attempts, copied, progress, phase, base, flags0, root, snap,
                  digest, args >>

(***************************************************************************)
(* Initial states of a parse_args call: a tree of at most MaxNodes         *)
(* directories (usable or locked), files and symlinks (dangling, or to the *)
(* top-level directory a), and the arguments of one subcommand.  No path   *)
(* the call looks at lies below a symlink.                                 *)
(***************************************************************************)
\* Largest number of TARGET values of an rm.
MaxTargets == 2

ParseNodes ==
  { Absent, DirNode(FALSE), DirNode(TRUE), FileNode(<< >>, FALSE),
    LinkNode(Target), LinkNode(DirTarget) }

ParseTrees ==
  { f \in [Paths -> ParseNodes] : WellFormed(f) /\ NodeCount(f) <= MaxNodes }

Sources == { << >>, << "b" >>, << "a", "c" >> }

TargetPaths == { << "a" >>, << "b" >>, << "a", "b" >> }

TargetLists == UNION { [1..n -> TargetPaths] : n \in 1..MaxTargets }

Options == SUBSET { FLAG_NAMES[i] : i \in 1..Len(FLAG_NAMES) }

Args(c, s, d, t, o) ==
  [cmd |-> c, source |-> s, destination |-> d, targets |-> t, options |-> o]

ArgMatches ==
  { Args(c, s, d, << >>, o) :
      c \in {"cp", "sync"}, s \in Sources, d \in Paths, o \in Options }
    \cup { Args("rm", << >>, << >>, t, o) : t \in TargetLists, o \in Options }
    \cup { Args("mv", << >>, << >>, << >>, {}) }

\* The paths the call hands to fs::metadata and fs::create_dir_all.
Looked(a, f) ==
  CASE a.cmd = "rm" -> { a.targets[i] : i \in 1..Len(a.targets) }
    [] a.cmd \in {"cp", "sync"} ->
         { a.source, a.destination, CopyDest(a, f) } \ { << >> }
    [] OTHER -> {}

InitParse ==
  /\ op = "parse"
  /\ flags = {}
  /\ flags0 = {}
  /\ batch = {}
  /\ src = EmptyTree
  /\ root = DirNode(FALSE)
  /\ args \in ArgMatches
  /\ fs0 \in ParseTrees
  /\ Looked(args, fs0) \subseteq Paths
  /\ \A p \in Looked(args, fs0) :
       \A q \in AncestorsOf(p) : fs0[q].kind # "link"
  /\ fs = fs0
  /\ given = << >>
  /\ viaSorter = FALSE
  /\ st = [e \in batch |-> "todo"]
  /\ result = [e \in batch |-> "none"]
  /\ attempts = << >>
  /\ copied = [e \in batch |-> 0]
  /\ progress = 0
  /\ phase = 1
  /\ base = 0
  /\ snap = << >>
  /\ digest = {}
  /\ parsed = << >>

NextParse == ParseArgs

SpecParse == InitParse /\ [][NextParse]_vars

(***************************************************************************)
(* The four bulk operations with their scheduling: a rayon worker that has *)
(* taken a closure runs it to its end and then takes the next one, and the *)
(* for loop of delete_files_sequential goes on to its next statement, so a *)
(* step that can be taken is taken.                                        *)
(***************************************************************************)
SpecFair == Spec /\ WF_vars(Next)

(***************************************************************************)
(* Properties of sort_files and of the two delete operations.              *)
(***************************************************************************)
BatchPaths == { e.path : e \in batch }

\* B is a set of Dir entries, each an existing directory of tree f that
\* contains only directories which are in B too.
ClosedDirSet(f, B) ==
  \A e \in B :
    /\ e.kind = "Dir"
    /\ f[e.path].kind = "dir"
    /\ \A q \in ChildrenOf(e.path) :
         Exists(f, q) => f[q].kind = "dir" /\ q \in { d.path : d \in B }

\* C1: delete_files_sequential on sort_files(D), D a set of directories that
\* contain only directories of D: every removal succeeds and the removed
\* path is gone, for every order the sorter may give to equal depths; at the
\* end no path of D exists.
C1_SortedSequentialDeleteRemovesAll ==
  (op = "delete_seq" /\ viaSorter /\ ClosedDirSet(fs0, batch)) =>
    /\ \A e \in batch :
         st[e] # "todo" => result[e] = "ok" /\ ~Exists(fs, e.path)
    /\ Done => \A p \in BatchPaths : ~Exists(fs, p)

\* Witness of C1: the run on three directories, a parent with its child and
\* one more directory at the parent's depth, has finished.
C1_Witness ==
  /\ op = "delete_seq" /\ viaSorter /\ Done
  /\ ClosedDirSet(fs0, batch)
  /\ BatchPaths = { <<"a">>, <<"a", "b">>, <<"b">> }

\* C2: in the sequence sort_files returns, an entry whose path lies below
\* another entry's path comes before that entry.
C2_ChildrenBeforeAncestors ==
  viaSorter =>
    \A i, j \in 1..Len(given) :
      IsStrictPrefix(given[i].path, given[j].path) => j < i

\* Witness of C2: sort_files has returned three entries, a path, its child
\* and its grandchild.
C2_Witness ==
  /\ viaSorter
  /\ Len(given) = MaxBatch
  /\ \E i, j, k \in 1..Len(given) :
       /\ IsStrictPrefix(given[i].path, given[j].path)
       /\ IsStrictPrefix(given[j].path, given[k].path)

\* C3: the sequence sort_files returns is ordered by descending component
\* count: no entry follows an entry with strictly fewer components (so a
\* unique entry with the fewest components is last).
C3_DescendingComponentCount ==
  viaSorter =>
    \A i, j \in 1..Len(given) :
      i < j =>
        ComponentCount(given[i].path) >= ComponentCount(given[j].path)

\* Witness of C3: sort_files has returned two entries of equal count in the
\* order "b" before "a" (the other order is reached as well), ahead of
\* nothing deeper.
C3_Witness ==
  /\ viaSorter
  /\ \E i, j \in 1..Len(given) :
       /\ i < j
       /\ given[i].path = <<"b">>
       /\ given[j].path = <<"a">>
  /\ \E i \in 1..Len(given) : ComponentCount(given[i].path) > 1

\* C4: delete_files_sequential removes in the order given: the entries
\* removed so far are exactly the first entries of the sequence, in its
\* order, and at most one iteration is in progress.
C4_SequentialInGivenOrder ==
  op = "delete_seq" =>
    /\ Len(attempts) <= Len(given)
    /\ attempts = SubSeq(given, 1, Len(attempts))
    /\ \A i \in 1..Len(given) :
         st[given[i]] # "todo" <=> i <= Len(attempts)
    /\ Cardinality(InFlight) <= 1

\* Witness of C4: a caller's own order that is not a sorter's (a parent ahead
\* of its child) has been processed to the end, one removal having failed.
C4_Witness ==
  /\ op = "delete_seq" /\ ~viaSorter /\ Done
  /\ Len(given) = MaxBatch
  /\ \E i, j \in 1..Len(given) :
       i < j /\ IsStrictPrefix(given[i].path, given[j].path)
  /\ \E e \in batch : result[e] = "err"
  /\ \E e \in batch : result[e] = "ok"

\* C5: the parallel delete_files on a set of directories holding a parent
\* and its child.  Every entry is attempted whatever failed before; a
\* directory that is empty at the start is always removed; a parent whose
\* removal was attempted while a child was present has failed and is still
\* there at the end, unchanged.
C5_ParallelDeleteMayLeaveParent ==
  (op = "delete" /\ ClosedDirSet(fs0, batch) /\ Done) =>
    \A e \in batch :
      /\ result[e] \in {"ok", "err"}
      /\ IsEmptyDir(fs0, e.path) => result[e] = "ok" /\ ~Exists(fs, e.path)
      /\ result[e] = "ok" => ~Exists(fs, e.path)
      /\ result[e] = "err" =>
           /\ fs[e.path] = fs0[e.path]
           /\ \E c \in batch : c.path \in ChildrenOf(e.path)

\* Witness of C5: the interleaving exists.  delete_files on {a, a/b, b} has
\* finished with the parent a failed and present, its child a/b and the
\* unrelated b removed.
C5_Witness ==
  /\ op = "delete" /\ Done
  /\ ClosedDirSet(fs0, batch)
  /\ BatchPaths = { <<"a">>, <<"a", "b">>, <<"b">> }
  /\ result[EntryOf("Dir", fs0, <<"a">>)] = "err"
  /\ Exists(fs, <<"a">>)
  /\ ~Exists(fs, <<"a", "b">>)
  /\ ~Exists(fs, <<"b">>)

(***************************************************************************)
(* Properties of all four bulk operations.                                 *)
(***************************************************************************)
\* C6: when a bulk operation over N entries has returned, the progress
\* counter has advanced by exactly N for copy_files, delete_files and
\* delete_files_sequential and by exactly 2N for compare_and_copy_files,
\* in every interleaving and whatever failed; before that it is never
\* above that total.
C6_ProgressReachesDeclaredTotal ==
  /\ op \in {"copy", "delete", "delete_seq"} =>
       /\ progress <= Cardinality(batch)
       /\ Done => progress = Cardinality(batch)
  /\ op = "compare" =>
       /\ progress <= 2 * Cardinality(batch)
       /\ Done => progress = 2 * Cardinality(batch)

\* Witness of C6: a compare-and-copy of two entries has returned, one copy
\* having failed, and the counter stands at 4.
C6_Witness ==
  /\ op = "compare" /\ Done
  /\ Cardinality(batch) = 2
  /\ \E e \in batch : result[e] = "err"
  /\ progress = 4

\* A step in which the filesystem call of entry e fails.
FailsIn(e) == st[e] = "todo" /\ st'[e] = "ran" /\ result'[e] = "err"

\* A failing entry leaves the tree as it was and touches no other entry.
FailureIsLocal ==
  \A e \in batch :
    FailsIn(e) =>
      /\ fs' = fs
      /\ \A d \in batch \ {e} :
           st'[d] = st[d] /\ result'[d] = result[d] /\ copied'[d] = copied[d]

\* C7: in every bulk operation the failure of one entry's filesystem call
\* does not abort the batch and does not change what the other entries do:
\* as long as an entry is unfinished the operation can take a step, and a
\* failing call leaves the tree and every other entry as they were, so the
\* other entries act as in the batch without the failing entry.
C7_FailureNeverAbortsBatch ==
  /\ [](~Done => ENABLED Next)
  /\ [][FailureIsLocal]_vars

\* Witness of C7: a batch has been processed to the end although the first
\* call made in it failed (an entry failed, and a later one succeeded).
C7_Witness ==
  /\ Done
  /\ \E e, d \in batch :
       /\ result[e] = "err"
       /\ result[d] = "ok"
  /\ op \in {"copy", "delete"}
  /\ \E e \in batch : e.kind = "File" /\ result[e] = "err"

(***************************************************************************)
(* Properties of copy_files and compare_and_copy_files.                    *)
(***************************************************************************)
\* C8: a File entry whose copy has failed leaves the destination path as it
\* was before the attempt: nothing is created there when the source cannot
\* be read, and an existing file that cannot be written keeps its content.
C8_FailedFileCopyLeavesDestination ==
  op \in {"copy", "compare"} =>
    \A e \in batch :
      (e.kind = "File" /\ result[e] = "err") =>
        /\ fs[e.path] = fs0[e.path]
        /\ copied[e] = 1

\* Witness of C8: both failures have happened in one batch: an unreadable
\* source with a free destination path, and a readable source whose
\* destination is a locked file of another content.
C8_Witness ==
  /\ op = "copy" /\ Done
  /\ \E e, d \in batch :
       /\ e.kind = "File" /\ d.kind = "File"
       /\ result[e] = "err" /\ result[d] = "err"
       /\ src[e.path].kind = "file" /\ src[e.path].locked
       /\ ~Exists(fs0, e.path) /\ Reachable(fs0, e.path)
       /\ Readable(src, d.path)
       /\ fs0[d.path].kind = "file" /\ fs0[d.path].locked
       /\ fs0[d.path].content # src[d.path].content

\* Entry e of a compare-and-copy has been processed, and its source and
\* destination copies were both readable.
ComparedReadable(e) ==
  /\ op = "compare"
  /\ st[e] # "todo"
  /\ Readable(src, e.path)
  /\ Readable(fs0, e.path)

C10_AbsentDigestForcesCopy ==
  \A e \in batch :
    (/\ op = "compare"
     /\ st[e] # "todo"
     /\ ~Readable(src, e.path) \/ ~Readable(fs0, e.path)) =>
      copied[e] = 1

\* Witness of C10: an entry of which neither copy can be read (both digests
\* are absent) has been processed, and its copy was attempted.
C10_Witness ==
  /\ op = "compare" /\ Done
  /\ \E e \in batch :
       /\ hash_file(e, src) = None /\ hash_file(e, fs0) = None
       /\ hash_file_secure(e, src) = None /\ hash_file_secure(e, fs0) = None
       /\ copied[e] = 1

(***************************************************************************)
(* Properties of compare_and_copy_files run twice.                         *)
(***************************************************************************)
\* Every entry's source copy can be read and its destination copy was a
\* file that could be read and written when the first run started.
AllReadableWritable ==
  \A e \in batch :
    /\ Readable(src, e.path)
    /\ Readable(fs0, e.path)
    /\ Writable(fs0, e.path)

SourceReadableDestWritable(e) ==
  /\ Readable(src, e.path)
  /\ Writable(fs0, e.path)

C13_RoundTripSnapshotEqual ==
  (op = "copy" /\ phase = 4) =>
    /\ Len(snap) = 2
    /\ snap[2].ok
    /\ snap[2] = snap[1]

\* Witness of C13: a finished round trip of a tree with a directory, a
\* directory inside it, a file inside that one and a symlink.
C13_Witness ==
  /\ op = "copy" /\ phase = 4 /\ Len(snap) = 2
  /\ Cardinality(snap[1].dirs) = 2
  /\ Cardinality(snap[1].symlinks) = 1
  /\ \E e \in snap[1].files : e.path = << "a", "b", "c" >> /\ e.aux = << 1 >>

\* The location and every directory below it can be listed and searched,
\* and every file can be read.
FullyReadable(r, f) ==
  /\ r = DirNode(FALSE)
  /\ \A p \in Paths : f[p].kind = "dir" => f[p] = DirNode(FALSE)
  /\ \A p \in Paths : f[p].kind = "file" => ~f[p].locked

PathsOfKind(f, k) == { p \in Paths : f[p].kind = k }

\* C14: for a fully readable tree get_all_files returns Ok with exactly the
\* descendants of the root: files holds every regular file with its
\* relative path and byte length, dirs every directory with its relative
\* path, symlinks every symlink with its relative path and stored target;
\* the root itself (the empty relative path) is no entry.
C14_SnapshotIsExactlyDescendants ==
  (op = "snapshot" /\ Len(snap) = 1 /\ FullyReadable(root, fs)) =>
    /\ snap[1].ok
    /\ snap[1].files =
         { Entry("File", p, << Len(fs[p].content) >>) :
             p \in PathsOfKind(fs, "file") }
    /\ snap[1].dirs = { Entry("Dir", p, << >>) : p \in PathsOfKind(fs, "dir") }
    /\ snap[1].symlinks =
         { Entry("Symlink", p, fs[p].content) : p \in PathsOfKind(fs, "link") }
    /\ \A e \in snap[1].files \cup snap[1].dirs \cup snap[1].symlinks :
         e.path # << >>

\* Witness of C14: the snapshot of a tree shaped like files {a.txt:1,
\* dir1/b.txt:0, dir1/dir2/c.txt:1}, dirs {dir1, dir1/dir2}, symlinks {}.
C14_Witness ==
  /\ op = "snapshot" /\ Len(snap) = 1 /\ FullyReadable(root, fs)
  /\ snap[1].files =
       { Entry("File", << "b" >>, << 1 >>),
         Entry("File", << "a", "c" >>, << 0 >>),
         Entry("File", << "a", "b", "c" >>, << 1 >>) }
  /\ snap[1].dirs =
       { Entry("Dir", << "a" >>, << >>), Entry("Dir", << "a", "b" >>, << >>) }
  /\ snap[1].symlinks = {}

\* The relative paths recorded in a set of entries.
PathsIn(S) == { e.path : e \in S }

\* No two entries of S share a path.
UniquePaths(S) == \A e1, e2 \in S : e1.path = e2.path => e1 = e2

\* The objects the traversal reaches and can classify: files, directories
\* and symlinks below the root with every directory above them, the root
\* included, listable and searchable.
Traversed(r, f) ==
  { p \in Paths :
      /\ f[p].kind \in {"file", "dir", "link"}
      /\ MetadataOk(r)
      /\ \A q \in AncestorsOf(p) : MetadataOk(f[q]) }

\* C15: in every snapshot get_all_files returns, no relative path occurs
\* twice within files, within dirs or within symlinks, no relative path
\* occurs in two of the three sets, and the paths of the three sets
\* together are exactly the traversed objects under the root.
C15_SetsPartitionTraversed ==
  (op = "snapshot" /\ Len(snap) = 1 /\ snap[1].ok) =>
    /\ UniquePaths(snap[1].files)
    /\ UniquePaths(snap[1].dirs)
    /\ UniquePaths(snap[1].symlinks)
    /\ PathsIn(snap[1].files) \cap PathsIn(snap[1].dirs) = {}
    /\ PathsIn(snap[1].files) \cap PathsIn(snap[1].symlinks) = {}
    /\ PathsIn(snap[1].dirs) \cap PathsIn(snap[1].symlinks) = {}
    /\ PathsIn(snap[1].files) \cup PathsIn(snap[1].dirs)
         \cup PathsIn(snap[1].symlinks) = Traversed(root, fs)

\* Witness of C15: a snapshot with entries in all three sets, among them a
\* file and a directory of the same file name in different directories.
C15_Witness ==
  /\ op = "snapshot" /\ Len(snap) = 1 /\ snap[1].ok
  /\ << "b" >> \in PathsIn(snap[1].files)
  /\ << "a", "b" >> \in PathsIn(snap[1].dirs)
  /\ snap[1].symlinks # {}

\* The root directory cannot be opened for reading: it does not exist, is
\* not a directory, or permission is denied.
RootUnreadable(r) ==
  \/ r.kind = "none"
  \/ r.kind \notin {"none", "dir"}
  \/ r.kind = "dir" /\ r.locked

\* C16: get_all_files returns Err exactly when the root cannot be opened for
\* reading; with a readable root it returns Ok whatever fails below the
\* root (unreadable subdirectories, unreadable metadata, failed link reads).
C16_ErrorIffRootUnreadable ==
  (op = "snapshot" /\ Len(snap) = 1) => (~snap[1].ok <=> RootUnreadable(root))

\* Witness of C16: Ok for a readable root above a locked subdirectory and a
\* special file.
C16_Witness ==
  /\ op = "snapshot" /\ Len(snap) = 1
  /\ snap[1].ok
  /\ ~RootUnreadable(root)
  /\ fs[<< "a" >>] = DirNode(TRUE)
  /\ fs[<< "b" >>] = SpecialNode

\* Witness of C16, error side: Err for a root that does not exist.
C16_WitnessErr ==
  /\ op = "snapshot" /\ Len(snap) = 1
  /\ ~snap[1].ok
  /\ root = Absent

(***************************************************************************)
(* Entry-level failures of the traversal.                                  *)
(***************************************************************************)
\* The directory holding p; the empty path is the root.
Parent(p) == SubSeq(p, 1, Len(p) - 1)

\* read_dir of p's parent yields p: the parent was classified as a
\* directory (everything above it can be searched) and can be listed.
Listed(r, f, p) ==
  /\ Exists(f, p)
  /\ ReadDirOk(NodeAt(f, r, Parent(p)))
  /\ Parent(p) # << >> =>
       /\ MetadataOk(r)
       /\ \A q \in AncestorsOf(Parent(p)) : MetadataOk(f[q])

\* file.metadata() is Err for the listed entry p.
MetadataFails(r, f, p) ==
  Listed(r, f, p) /\ ~MetadataOk(NodeAt(f, r, Parent(p)))

\* fs::read_link is Err for the listed entry p.
ReadLinkFails(r, f, p) ==
  /\ Listed(r, f, p) /\ MetadataOk(NodeAt(f, r, Parent(p)))
  /\ f[p].kind = "special"

\* The recursive call for the listed directory p is Err.
RecursionFails(r, f, p) ==
  /\ Listed(r, f, p) /\ MetadataOk(NodeAt(f, r, Parent(p)))
  /\ f[p].kind = "dir"
  /\ ~ReadDirOk(f[p])

AllPathsOf(s) == PathsIn(s.files) \cup PathsIn(s.dirs) \cup PathsIn(s.symlinks)

\* Every classifiable object outside the failing entries is reported.
RestReported(r, f, s) == Traversed(r, f) \subseteq AllPathsOf(s)

\* C17 as stated: an entry whose metadata cannot be read, whose link cannot
\* be read or whose recursive traversal fails contributes no entry to the
\* snapshot, and its siblings and the rest of the tree are reported.
C17_FailedEntrySkipped ==
  (op = "snapshot" /\ Len(snap) = 1 /\ snap[1].ok) =>
    /\ \A p \in Paths :
         (\/ MetadataFails(root, fs, p)
          \/ ReadLinkFails(root, fs, p)
          \/ RecursionFails(root, fs, p)) => p \notin AllPathsOf(snap[1])
    /\ \A p \in Traversed(root, fs) :
         ~RecursionFails(root, fs, p) => p \in AllPathsOf(snap[1])

\* C17, amended: an entry whose metadata or link cannot be read contributes
\* no entry; a subdirectory whose recursive traversal fails keeps its own
\* Dir entry and contributes nothing below it; in each case the siblings and
\* the rest of the tree are traversed and reported.
C17_FailedEntryAbsorbed ==
  (op = "snapshot" /\ Len(snap) = 1 /\ snap[1].ok) =>
    /\ \A p \in Paths :
         (MetadataFails(root, fs, p) \/ ReadLinkFails(root, fs, p)) =>
           p \notin AllPathsOf(snap[1])
    /\ \A p \in Paths :
         RecursionFails(root, fs, p) =>
           /\ p \in PathsIn(snap[1].dirs)
           /\ \A q \in Paths :
                IsStrictPrefix(p, q) => q \notin AllPathsOf(snap[1])
    /\ RestReported(root, fs, snap[1])

\* Witness of C17: a snapshot in which a link read failed (b), a recursive
\* traversal failed (a/b, which holds a file) and the metadata of an entry
\* could not be read, while a sibling of a/b (a/c) is reported.
C17_Witness ==
  /\ op = "snapshot" /\ Len(snap) = 1 /\ snap[1].ok
  /\ ReadLinkFails(root, fs, << "b" >>)
  /\ RecursionFails(root, fs, << "a", "b" >>)
  /\ Exists(fs, << "a", "b", "c" >>)
  /\ << "a", "c" >> \in AllPathsOf(snap[1])

\* Witness of C17, metadata side: an entry of a list-only directory is
\* skipped and the directory's sibling is reported.
C17_WitnessMetadata ==
  /\ op = "snapshot" /\ Len(snap) = 1 /\ snap[1].ok
  /\ MetadataFails(root, fs, << "a", "c" >>)
  /\ << "b" >> \in AllPathsOf(snap[1])

\* The paths below p.
Below(p) == { q \in Paths : IsStrictPrefix(p, q) }

\* The regular files next to p in its directory.
SiblingFiles(f, p) ==
  { q \in ChildrenOf(Parent(p)) : q # p /\ f[q].kind = "file" }

\* The listed directory p can be read and holds nothing.
EmptySubdir(r, f, p) ==
  /\ Listed(r, f, p) /\ MetadataOk(NodeAt(f, r, Parent(p)))
  /\ f[p].kind = "dir"
  /\ ReadDirOk(f[p])
  /\ IsEmptyDir(f, p)

\* C18: with a readable root get_all_files returns Ok; a subdirectory that
\* cannot be read is in dirs, nothing below it is in the snapshot, and the
\* files next to it are in files; an empty subdirectory is in dirs and
\* nothing below it is in the snapshot.
C18_UnreadableSubdirStillReported ==
  (op = "snapshot" /\ Len(snap) = 1 /\ ~RootUnreadable(root)) =>
    /\ snap[1].ok
    /\ \A p \in Paths :
         RecursionFails(root, fs, p) =>
           /\ Entry("Dir", p, << >>) \in snap[1].dirs
           /\ Below(p) \cap AllPathsOf(snap[1]) = {}
           /\ SiblingFiles(fs, p) \subseteq PathsIn(snap[1].files)
    /\ \A p \in Paths :
         EmptySubdir(root, fs, p) =>
           /\ Entry("Dir", p, << >>) \in snap[1].dirs
           /\ Below(p) \cap AllPathsOf(snap[1]) = {}

\* Witness of C18: the tree of multi_level_insufficient_permissions with an
\* empty subdirectory added: a locked subdirectory a/b that holds a file, an
\* unreadable file a/c next to it, both reported, inside a readable a.
C18_Witness ==
  /\ op = "snapshot" /\ Len(snap) = 1 /\ ~RootUnreadable(root)
  /\ RecursionFails(root, fs, << "a", "b" >>)
  /\ Exists(fs, << "a", "b", "c" >>)
  /\ fs[<< "a", "c" >>] = FileNode(LockedContent, TRUE)
  /\ Entry("Dir", << "a", "b" >>, << >>) \in snap[1].dirs
  /\ Entry("File", << "a", "c" >>, << 1 >>) \in snap[1].files

\* Witness of C18, empty side: an empty readable subdirectory is reported.
C18_WitnessEmpty ==
  /\ op = "snapshot" /\ Len(snap) = 1 /\ ~RootUnreadable(root)
  /\ EmptySubdir(root, fs, << "a", "b" >>)
  /\ Entry("Dir", << "a", "b" >>, << >>) \in snap[1].dirs

(***************************************************************************)
(* Properties of hash_file and hash_file_secure.                           *)
(***************************************************************************)
\* The file at the call's location joined with its entry's path can be
\* opened and read.
CallReadable(c) == Readable(TreeAt(c.location), c.entry.path)

\* C19: hash_file and hash_file_secure return None whenever the file at
\* location + path cannot be opened or read and Some digest whenever it can;
\* every call returns one of the two, never an error.
C19_AbsentIffUnreadable ==
  op = "hash" =>
    \A c \in digest :
      /\ c.value = None <=> ~CallReadable(c)
      /\ CallReadable(c) => Len(c.value) = 1 /\ c.value[1] \in Nat
      /\ Len(c.value) <= 1

\* Witness of C19: a fast call on a path that does not exist and a secure
\* call on a file without read permission returned None.
C19_Witness ==
  /\ op = "hash"
  /\ \E c1, c2 \in digest :
       /\ ~c1.secure /\ c1.value = None
       /\ ~Exists(TreeAt(c1.location), c1.entry.path)
       /\ c2.secure /\ c2.value = None
       /\ TreeAt(c2.location)[c2.entry.path] = FileNode(LockedContent, TRUE)

\* Witness of C19, present side: a call on a readable file returned Some.
C19_WitnessSome ==
  /\ op = "hash"
  /\ \E c \in digest : CallReadable(c) /\ c.value # None

\* The bytes of the file a call hashed.
CallContent(c) == TreeAt(c.location)[c.entry.path].content

\* C20: the digest of a readable file depends only on its bytes and on the
\* strategy: two calls of the same strategy on readable files with the same
\* content return the same digest, whatever the paths, the locations and
\* the sizes recorded in the two entries.
C20_DigestDependsOnContentOnly ==
  op = "hash" =>
    \A c1, c2 \in digest :
      (/\ c1.secure = c2.secure
       /\ CallReadable(c1) /\ CallReadable(c2)
       /\ CallContent(c1) = CallContent(c2)) => c1.value = c2.value

\* Witness of C20: two secure calls on two zero-length files at different
\* paths, under entries recording different sizes, returned equal digests.
C20_Witness ==
  /\ op = "hash"
  /\ \E c1, c2 \in digest :
       /\ c1.secure /\ c2.secure
       /\ c1.entry.path # c2.entry.path
       /\ c1.entry.aux # c2.entry.aux
       /\ CallReadable(c1) /\ CallReadable(c2)
       /\ CallContent(c1) = << >> /\ CallContent(c2) = << >>
       /\ c1.value = c2.value

\* Witness of C20, fast side: two fast calls on files of the same content
\* at the two locations returned equal digests.
C20_WitnessFast ==
  /\ op = "hash"
  /\ \E c1, c2 \in digest :
       /\ ~c1.secure /\ ~c2.secure
       /\ c1.location # c2.location
       /\ CallReadable(c1) /\ CallReadable(c2)
       /\ CallContent(c1) = CallContent(c2)
       /\ c1.value = c2.value

(***************************************************************************)
(* Properties of copy_files on Dir and File entries.                       *)
(***************************************************************************)
\* The destination takes every directory of the batch: each path of the
\* batch and each path above it is free or a directory that can be searched
\* and written.
WritableForDirs ==
  \A e \in batch :
    /\ e.kind = "Dir"
    /\ CreateDirAllOk(fs0, e.path)
    /\ fs0[e.path].kind = "dir" => ~fs0[e.path].locked

\* C21: copy_files over a set of Dir entries into a writable destination:
\* every copy succeeds in whatever order the entries are taken, the
\* directory and every directory above it exist afterwards, what existed
\* before is left as it was, and at the end every directory of the set
\* exists.
C21_DirCopyCreatesAncestors ==
  (op = "copy" /\ phase = 1 /\ WritableForDirs) =>
    /\ \A e \in batch :
         st[e] # "todo" =>
           /\ result[e] = "ok"
           /\ fs[e.path].kind = "dir"
           /\ \A q \in AncestorsOf(e.path) : fs[q].kind = "dir"
    /\ \A p \in Paths : Exists(fs0, p) => fs[p] = fs0[p]
    /\ Done => \A e \in batch : fs[e.path].kind = "dir"

\* Witness of C21: of the two entries a and a/b/c the deeper one has been
\* copied first, into a destination that held neither a nor a/b, while a
\* is still to do.
C21_Witness ==
  /\ op = "copy" /\ phase = 1 /\ WritableForDirs
  /\ BatchPaths = { << "a" >>, << "a", "b", "c" >> }
  /\ ~Exists(fs0, << "a" >>)
  /\ \E e, d \in batch :
       /\ e.path = << "a", "b", "c" >> /\ st[e] = "done" /\ result[e] = "ok"
       /\ d.path = << "a" >> /\ st[d] = "todo"
  /\ fs[<< "a", "b" >>].kind = "dir"

\* Witness of C21, no-op side: a directory that existed has been copied and
\* the tree is as it was.
C21_WitnessNoOp ==
  /\ op = "copy" /\ phase = 1 /\ WritableForDirs
  /\ Done /\ batch # {}
  /\ \A e \in batch : fs0[e.path].kind = "dir"
  /\ fs = fs0

\* The entry's source file can be read and the directory that holds its
\* destination path exists and can be searched and written.
SourceReadableParentWritable(e) ==
  /\ e.kind = "File"
  /\ Readable(src, e.path)
  /\ Reachable(fs0, e.path)

\* The source tree is never written.
SourceUnchanged == src' = src

\* C22 as stated: after the copy of a File entry whose source is readable
\* and whose destination parent directory exists and is writable, the
\* destination is a file with the source's content, whatever the
\* destination path held before; the source tree is left unchanged.
C22_FileCopyOverwrites ==
  /\ [](op = "copy" /\ phase = 1 =>
          \A e \in batch :
            (SourceReadableParentWritable(e) /\ st[e] # "todo") =>
              /\ fs[e.path].kind = "file"
              /\ fs[e.path].content = src[e.path].content)
  /\ [][SourceUnchanged]_vars

\* C22, amended: the same when in addition the destination path is free or
\* holds a regular file that can be written; a destination file without
\* write permission makes the copy fail and keeps its content.
C22_FileCopyOverwritesWritable ==
  /\ [](op = "copy" /\ phase = 1 =>
          \A e \in batch :
            (SourceReadableParentWritable(e) /\ st[e] # "todo") =>
              /\ Writable(fs0, e.path) =>
                   /\ result[e] = "ok"
                   /\ fs[e.path].kind = "file"
                   /\ fs[e.path].content = src[e.path].content
              /\ ~Writable(fs0, e.path) =>
                   /\ result[e] = "err"
                   /\ fs[e.path] = fs0[e.path])
  /\ [][SourceUnchanged]_vars

\* Witness of C22: a file with one content has been copied over a writable
\* file with another content, and a second file to a free path.
C22_Witness ==
  /\ op = "copy" /\ phase = 1 /\ Done
  /\ \A e \in batch : SourceReadableParentWritable(e) /\ Writable(fs0, e.path)
  /\ \E e, d \in batch :
       /\ fs0[e.path].kind = "file"
       /\ fs0[e.path].content # src[e.path].content
       /\ fs[e.path].content = src[e.path].content
       /\ ~Exists(fs0, d.path)
       /\ fs[d.path].content = src[d.path].content

(***************************************************************************)
(* Properties shared by the four bulk operations.                          *)
(***************************************************************************)
\* The entry's filesystem step has been taken.
Processed(e) == st[e] # "todo"

\* A log record saying that the entry's operation succeeded or failed.
Logged(e) == result[e] \in {"ok", "err"}

C23_WitnessSkipped ==
  /\ op = "compare" /\ phase = 1 /\ Done
  /\ \E e, d \in batch : result[e] = "ok" /\ result[d] = "none"

\* C24: with the SEQUENTIAL flag set, copy_files, compare_and_copy_files
\* and delete_files run on one worker: at every moment at most one entry's
\* closure is in progress, so no two closures of a batch overlap.
C24_SequentialOneWorker ==
  (op \in {"copy", "compare", "delete"} /\ "SEQUENTIAL" \in flags) =>
    Cardinality(InFlight) <= 1

\* Witness of C24: under SEQUENTIAL, in a compare-and-copy of two entries
\* one closure has returned and the other is in progress.
C24_Witness ==
  /\ op = "compare" /\ "SEQUENTIAL" \in flags
  /\ \E e, d \in batch : st[e] = "done" /\ st[d] = "ran"

(***************************************************************************)
(* Properties of the two delete operations.                                *)
(***************************************************************************)
\* C25: delete_files and delete_files_sequential change only the paths of
\* their batch entries: every other path keeps its node; a path of the
\* batch keeps its node or is gone; an empty batch, or one whose paths all
\* do not exist, leaves the whole tree as it was.
C25_DeleteTouchesOnlyBatchPaths ==
  op \in {"delete", "delete_seq"} =>
    /\ \A p \in Paths \ BatchPaths : fs[p] = fs0[p]
    /\ \A p \in BatchPaths : fs[p] = fs0[p] \/ fs[p] = Absent
    /\ (\A p \in BatchPaths : ~Exists(fs0, p)) => fs = fs0

\* Witness of C25: a finished delete of two entries, one removed and one
\* whose path does not exist, in a tree that holds a third object.
C25_Witness ==
  /\ op \in {"delete", "delete_seq"} /\ Done
  /\ Cardinality(batch) = 2
  /\ \E p, q \in BatchPaths :
       /\ Exists(fs0, p) /\ ~Exists(fs, p)
       /\ ~Exists(fs0, q)
  /\ \E p \in Paths \ BatchPaths : Exists(fs0, p)

\* Witness of C25, nothing to delete: a finished delete whose entries all
\* resolve to paths that do not exist, in a tree that is not empty.
C25_WitnessNoFiles ==
  /\ op \in {"delete", "delete_seq"} /\ Done
  /\ batch # {}
  /\ \A p \in BatchPaths : ~Exists(fs0, p)
  /\ fs0 # EmptyTree

\* A step in which the removal of Dir entry e is attempted while its
\* directory has a child.
RemovesNonEmpty(e) ==
  /\ e.kind = "Dir"
  /\ st[e] = "todo" /\ st'[e] = "ran"
  /\ fs[e.path].kind = "dir"
  /\ ~IsEmptyDir(fs, e.path)

\* Such a removal fails and leaves the tree as it was.
NonEmptyDirStays ==
  \A e \in batch :
    (op \in {"delete", "delete_seq"} /\ RemovesNonEmpty(e)) =>
      fs' = fs /\ result'[e] = "err"

\* C26: in delete_files and delete_files_sequential the removal of a Dir
\* entry whose directory is not empty at the moment of the attempt fails and
\* leaves the directory and its contents in place; in every reachable state
\* each existing path's parent directory exists.
C26_NonEmptyDirNeverRemoved ==
  /\ [](op \in {"delete", "delete_seq"} => WellFormed(fs))
  /\ [][NonEmptyDirStays]_vars

\* Witness of C26: deleting the directories {a, b} while a/b exists has
\* removed b and left a and a/b, a's removal having failed.
C26_Witness ==
  /\ op \in {"delete", "delete_seq"} /\ Done
  /\ batch = { EntryOf("Dir", fs0, << "a" >>), EntryOf("Dir", fs0, << "b" >>) }
  /\ fs0[<< "a", "b" >>].kind = "dir" /\ fs0[<< "b" >>].kind = "dir"
  /\ fs[<< "a" >>].kind = "dir" /\ fs[<< "a", "b" >>].kind = "dir"
  /\ ~Exists(fs, << "b" >>)
  /\ result[EntryOf("Dir", fs0, << "a" >>)] = "err"

\* The entries whose closure / iteration has returned.
Finished == { e \in batch : st[e] = "done" }

\* A step changes the counter only by adding, and only as the last step of
\* an entry whose filesystem operation has been attempted.
ProgressStep ==
  /\ progress' >= progress
  /\ progress' # progress =>
       \E e \in batch : st[e] = "ran" /\ st'[e] = "done" /\ batch' = batch

\* C27: during a bulk operation the progress counter never decreases;
\* measured from the start of the batch it never exceeds 1 per finished
\* entry (copy, delete) or 2 per finished entry (compare-and-copy); an
\* entry's units are added only after its filesystem operation was
\* attempted.
C27_ProgressBoundedByFinished ==
  /\ [](/\ op \in {"copy", "delete", "delete_seq"} =>
             progress - base <= Cardinality(Finished)
        /\ op = "compare" => progress - base <= 2 * Cardinality(Finished)
        /\ progress >= base)
  /\ [][ProgressStep]_vars

\* Witness of C27: in a compare-and-copy of two entries one has finished,
\* the other's copy has been attempted, and the counter stands at 2.
C27_Witness ==
  /\ op = "compare"
  /\ \E e, d \in batch : st[e] = "done" /\ st[d] = "ran" /\ copied[d] = 1
  /\ progress - base = 2

\* An entry moves from to-do to attempted to finished and never back.
AttemptOnce ==
  \A e \in batch :
    st'[e] # st[e] =>
      \/ st[e] = "todo" /\ st'[e] = "ran"
      \/ st[e] = "ran" /\ st'[e] = "done"

\* The calls counted for a finished batch: one copy_file call per entry of
\* copy_files, at most one per entry of compare_and_copy_files, one remove
\* per entry of delete_files_sequential.
CalledOnce ==
  /\ op = "copy" => \A e \in batch : copied[e] = 1
  /\ op = "compare" => \A e \in batch : copied[e] <= 1
  /\ op = "delete_seq" =>
       /\ Len(attempts) = Cardinality(batch)
       /\ \A e \in batch : \E i \in 1..Len(attempts) : attempts[i] = e

Flat(B) == \A e, d \in B : ~IsStrictPrefix(e.path, d.path)

\* The entries whose remove has been called, and those that took the Err arm.
Attempted == { e \in batch : st[e] # "todo" }

FailedEntries == { e \in batch : result[e] = "err" }

\* C29: for a flat batch the parallel delete_files, under every
\* interleaving, ends in the filesystem state that delete_files_sequential
\* reaches on the same entries in any order; the same holds at every point
\* of the run for the entries removed so far, and the loop of
\* delete_files_sequential itself ends in the state of the function.
C29_FlatParallelEqualsSequential ==
  /\ (op = "delete" /\ Flat(batch)) =>
       \A s \in Arrangements(Attempted) :
         /\ delete_files_sequential(fs0, s).fs = fs
         /\ delete_files_sequential(fs0, s).failed = FailedEntries
  /\ (op = "delete_seq" /\ given # << >> /\ Done) =>
       delete_files_sequential(fs0, given).fs = fs

\* Witness of C29: a parallel delete of a flat batch of three entries on two
\* workers has completed, one remove having failed and one succeeded.
C29_Witness ==
  /\ op = "delete" /\ "SEQUENTIAL" \notin flags /\ Done
  /\ Flat(batch) /\ Cardinality(batch) = 3
  /\ \E e, d \in batch : result[e] = "err" /\ result[d] = "ok"
  /\ fs # fs0

\* C30: delete_files_sequential applied to the output of sort_files is
\* deterministic: every order the unstable sort may return for the batch
\* leads from the initial filesystem to the same final filesystem and to the
\* same set of failed entries as the run that took place.
C30_SortedSequentialDeleteDeterministic ==
  (op = "delete_seq" /\ viaSorter /\ Done) =>
    \A s \in sort_files(batch) :
      /\ delete_files_sequential(fs0, s).fs = fs
      /\ delete_files_sequential(fs0, s).failed = FailedEntries

\* Witness of C30: a sorted sequential delete has completed for a batch
\* the sort may return in more than one order, with a failed and a removed
\* entry.
C30_Witness ==
  /\ op = "delete_seq" /\ viaSorter /\ Done
  /\ Cardinality(sort_files(batch)) > 1
  /\ \E e, d \in batch : result[e] = "err" /\ result[d] = "ok"

\* The links of the tree the traversal comes to: every directory above them,
\* the location included, can be listed and its entries' metadata read.
TraversedLinks ==
  { q \in Paths :
      /\ fs[q].kind = "link"
      /\ ReadDirOk(root) /\ MetadataOk(root)
      /\ \A a \in AncestorsOf(q) : ReadDirOk(fs[a]) /\ MetadataOk(fs[a]) }

\* C31: the snapshot classifies without following symlinks: every Symlink
\* entry is a link of the tree with the target stored in the link, every
\* link the traversal comes to (to a directory, or dangling) is recorded
\* as such a Symlink entry, no File or Dir entry has the path of a link, and
\* no entry of any set lies below the path of a link.
C31_SymlinksNotFollowed ==
  (op = "snapshot" /\ snap # << >> /\ snap[1].ok) =>
    /\ \A e \in snap[1].symlinks :
         fs[e.path].kind = "link" /\ e.aux = fs[e.path].content
    /\ \A q \in TraversedLinks :
         \E e \in snap[1].symlinks : e.path = q /\ e.aux = fs[q].content
    /\ \A q \in Paths :
         fs[q].kind = "link" =>
           /\ \A e \in snap[1].files \cup snap[1].dirs : e.path # q
           /\ \A e \in snap[1].files : ~IsStrictPrefix(q, e.path)
           /\ \A e \in snap[1].dirs : ~IsStrictPrefix(q, e.path)
           /\ \A e \in snap[1].symlinks : ~IsStrictPrefix(q, e.path)

\* Witness of C31: the snapshot of a tree with a link to a directory that
\* has a file in it, and with a dangling link, holds both links as Symlink
\* entries with their stored targets.
C31_Witness ==
  /\ op = "snapshot" /\ snap # << >> /\ snap[1].ok
  /\ fs[<<"a">>].kind = "dir" /\ fs[<<"a", "c">>].kind = "file"
  /\ fs[<<"b">>] = LinkNode(DirTarget)
  /\ fs[<<"a", "b">>] = LinkNode(Target)
  /\ \E e, d \in snap[1].symlinks :
       /\ e.path = <<"b">> /\ e.aux = DirTarget
       /\ d.path = <<"a", "b">> /\ d.aux = Target

\* The sequence s holds exactly the entries of S, each once.
IsPermutationOf(s, S) ==
  /\ Len(s) = Cardinality(S)
  /\ { s[i] : i \in 1..Len(s) } = S
  /\ \A i, j \in 1..Len(s) : s[i] = s[j] => i = j

\* C32: sort_files returns a permutation of its input: every sequence it
\* may return for the batch, and the one it did return, has exactly the
\* batch's entries, each once; it returns some sequence for every batch,
\* the empty one for the empty batch and the entry itself for a single one.
C32_SortFilesPermutes ==
  op = "delete_seq" =>
    /\ sort_files(batch) # {}
    /\ \A s \in sort_files(batch) : IsPermutationOf(s, batch)
    /\ viaSorter => IsPermutationOf(given, batch)
    /\ batch = {} => sort_files(batch) = { << >> }
    /\ \A e \in batch : batch = {e} => sort_files(batch) = { << e >> }

\* Witness of C32: sort_files has returned three entries, two of them of
\* the same depth.
C32_Witness ==
  /\ op = "delete_seq" /\ viaSorter
  /\ Len(given) = 3
  /\ \E i, j, k \in 1..3 :
       /\ i # j
       /\ ComponentCount(given[i].path) = ComponentCount(given[j].path)
       /\ ComponentCount(given[k].path) # ComponentCount(given[i].path)

\* Witness of C32: sort_files has returned for the empty batch.
C32_WitnessEmpty == op = "delete_seq" /\ viaSorter /\ batch = {}

\* Witness of C32: sort_files has returned for a batch of one entry.
C32_WitnessSingle ==
  op = "delete_seq" /\ viaSorter /\ Cardinality(batch) = 1 /\ Len(given) = 1

\* The two copies of the entry, where both can be read, have the same fast
\* digest only when they have the same bytes.
NoCollision(e, s, f) ==
  (Readable(s, e.path) /\ Readable(f, e.path)
     /\ seahash(s[e.path].content) = seahash(f[e.path].content))
    => s[e.path].content = f[e.path].content

Secure(fl) == fl \cup {"SECURE"}

Fast(fl) == fl \ {"SECURE"}

\* The Flag set with the SECURE bit inverted.
OtherStrategy(fl) == IF "SECURE" \in fl THEN Fast(fl) ELSE Secure(fl)

\* C33: where the fast digest tells the two copies of every entry apart,
\* compare_and_copy_files decides and acts alike with and without SECURE:
\* for an entry about to be processed the call gives the same decision, log
\* line and destination under both strategies, and a finished batch has
\* copied the entries, and reached the destination tree, that the batch
\* under the other strategy reaches from the same start in any order.
C33_StrategiesAgreeWithoutCollision ==
  op = "compare" =>
    /\ \A e \in batch :
         (st[e] = "todo" /\ NoCollision(e, src, fs)) =>
           compare_and_copy_file(e, src, fs, Secure(flags))
             = compare_and_copy_file(e, src, fs, Fast(flags))
    /\ (Done /\ \A e \in batch : NoCollision(e, src, fs0)) =>
         \A seq \in Arrangements(batch) :
           /\ compare_and_copy_files(seq, src, fs0, OtherStrategy(flags)).fs
                = fs
           /\ compare_and_copy_files(seq, src, fs0, OtherStrategy(flags)).copied
                = { e \in batch : copied[e] = 1 }

\* Witness of C33: a batch of two entries has finished without a digest
\* collision; one entry with two readable, different copies was copied, the
\* other, whose source cannot be read, was tried and failed.
C33_Witness ==
  /\ op = "compare" /\ Done /\ Cardinality(batch) = 2
  /\ \A e \in batch : NoCollision(e, src, fs0)
  /\ \E e, d \in batch :
       /\ Readable(src, e.path) /\ Readable(fs0, e.path)
       /\ src[e.path].content # fs0[e.path].content
       /\ copied[e] = 1 /\ result[e] = "ok"
       /\ ~Readable(src, d.path) /\ copied[d] = 1 /\ result[d] = "err"

\* Witness of C33: a finished batch in which an entry with a readable
\* source and an unreadable destination was tried, and an entry with two
\* equal copies was skipped.
C33_WitnessSkip ==
  /\ op = "compare" /\ Done /\ Cardinality(batch) = 2
  /\ \E e, d \in batch :
       /\ Readable(src, e.path) /\ fs0[e.path].locked /\ copied[e] = 1
       /\ Readable(src, d.path) /\ Readable(fs0, d.path)
       /\ src[d.path].content = fs0[d.path].content /\ copied[d] = 0

\* The copy of the Symlink entry e is made in this step.
CopiesSymlink(e) ==
  /\ op = "copy" /\ e.kind = "Symlink"
  /\ st[e] = "todo" /\ st'[e] = "ran"

\* What one copy of a Symlink entry does.
SymlinkCopyStep ==
  \A e \in batch :
    CopiesSymlink(e) =>
      /\ Exists(fs, e.path) => fs' = fs /\ result'[e] = "err"
      /\ fs' # fs =>
           /\ ~Exists(fs, e.path)
           /\ fs' = [fs EXCEPT ![e.path] = LinkNode(e.aux)]
           /\ result'[e] = "ok"
      /\ \A d \in batch \ {e} : st'[d] = st[d] /\ result'[d] = result[d]

\* C34: the copy of a Symlink entry never overwrites: with anything at the
\* destination path the call fails and leaves the tree as it was; the tree
\* changes only by a link at a free destination path, with the entry's
\* target; a failure stops no other entry: a closure not yet run can run
\* whenever a worker is free, and every object that was in the way is
\* still there, unchanged, at the end.
C34_SymlinkCopyNeverOverwrites ==
  /\ [][SymlinkCopyStep]_vars
  /\ []((op = "copy" /\ \A e \in batch : e.kind = "Symlink") =>
          /\ \A e \in batch :
               /\ Exists(fs0, e.path) =>
                    fs[e.path] = fs0[e.path] /\ result[e] # "ok"
               /\ (st[e] = "todo" /\ Cardinality(InFlight) < NumThreads)
                    => ENABLED CopyFile(e)
          /\ \A p \in Paths :
               fs[p] # fs0[p] =>
                 \E e \in batch : e.path = p /\ fs[p] = LinkNode(e.aux))

\* Witness of C34: a batch of two Symlink entries has finished: for one a
\* link with another target was in the way and is still there, the other
\* was created with the entry's target.
C34_Witness ==
  /\ op = "copy" /\ Done /\ Cardinality(batch) = 2
  /\ \E e, d \in batch :
       /\ e.kind = "Symlink" /\ e.aux # Target
       /\ fs0[e.path] = LinkNode(Target) /\ fs[e.path] = LinkNode(Target)
       /\ result[e] = "err"
       /\ ~Exists(fs0, d.path) /\ fs[d.path] = LinkNode(d.aux)
       /\ result[d] = "ok"

\* Witness of C34: a Symlink entry failed on a file in the way, and on a
\* directory in the way.
C34_WitnessFileDir ==
  /\ op = "copy" /\ Done
  /\ \E e, d \in batch :
       /\ e.kind = "Symlink"
       /\ fs0[e.path].kind = "file" /\ fs[e.path] = fs0[e.path]
       /\ result[e] = "err"
       /\ fs0[d.path].kind = "dir" /\ fs[d.path] = fs0[d.path]
       /\ result[d] = "err"

\* parse_args has returned for a cp or sync command.
ParsedCopyOrSync ==
  op = "parse" /\ parsed # << >> /\ args.cmd \in {"cp", "sync"}

\* The destination of the result.
ResultDest == parsed[1].dest[1]

\* C35 as stated: whenever parse_args returns Ok for cp or sync, the
\* destination of the result exists and is a directory, created with its
\* missing ancestors if it did not exist, and the source is an existing
\* directory; with a source that is missing or no directory, or a
\* destination that cannot be created, parse_args returns an error.
C35_OkMeansDestinationIsDirectory ==
  ParsedCopyOrSync =>
    /\ parsed[1].ok =>
         /\ metadata(fs, ResultDest) = "dir"
         /\ metadata(fs, args.source) = "dir"
         /\ metadata(fs0, ResultDest) = "err" =>
              \A q \in AncestorsOf(ResultDest) \cup {ResultDest} :
                fs[q].kind = "dir"
    /\ metadata(fs0, args.source) # "dir" => ~parsed[1].ok
    /\ (/\ metadata(fs0, CopyDest(args, fs0)) = "err"
        /\ ~CreateDirAllOk(fs0, CopyDest(args, fs0))) => ~parsed[1].ok

\* C35, what the code guarantees: after Ok for cp or sync the source is an
\* existing directory and the destination of the result exists: it is the
\* directory parse_args created, with its missing ancestors, when
\* fs::metadata failed for it, and otherwise whatever was there before, a
\* directory or not, left as it was; the errors are as stated.
C35_OkMeansDestinationExists ==
  ParsedCopyOrSync =>
    /\ parsed[1].ok =>
         /\ metadata(fs, ResultDest) # "err"
         /\ metadata(fs, args.source) = "dir"
         /\ ResultDest = CopyDest(args, fs0)
         /\ metadata(fs0, ResultDest) = "err" =>
              /\ fs = create_dir_all(fs0, ResultDest)
              /\ \A q \in AncestorsOf(ResultDest) \cup {ResultDest} :
                   fs[q].kind = "dir"
         /\ metadata(fs0, ResultDest) # "err" => fs = fs0
    /\ ~parsed[1].ok => fs = fs0
    /\ parsed[1].ok <=>
         /\ metadata(fs0, args.source) = "dir"
         /\ \/ metadata(fs0, CopyDest(args, fs0)) # "err"
            \/ CreateDirAllOk(fs0, CopyDest(args, fs0))
    /\ metadata(fs0, args.source) # "dir" => ~parsed[1].ok
    /\ (/\ metadata(fs0, CopyDest(args, fs0)) = "err"
        /\ ~CreateDirAllOk(fs0, CopyDest(args, fs0))) => ~parsed[1].ok

\* Witness of C35: parse_args returned Ok for a sync whose destination is a
\* regular file.
C35_Witness ==
  /\ ParsedCopyOrSync /\ args.cmd = "sync" /\ parsed[1].ok
  /\ fs[ResultDest].kind = "file"

\* Witness of C35: parse_args returned Ok for a cp into an existing
\* directory and created the destination two levels below it.
C35_WitnessCreated ==
  /\ ParsedCopyOrSync /\ args.cmd = "cp" /\ parsed[1].ok
  /\ Len(ResultDest) = 3
  /\ fs0[<<"a", "b">>].kind = "none"
  /\ fs[ResultDest].kind = "dir"

\* The targets of the rm that resolve to a directory, in their order.
DirTargets == LET IsDir(d) == metadata(fs0, d) = "dir"
              IN SelectSeq(args.targets, IsDir)

\* C36: for rm the targets of the result are exactly the given targets that
\* exist and are directories, in their original order; parse_args returns an
\* error if and only if there is none; the filesystem is not modified.
C36_RemoveKeepsDirectoryTargets ==
  (op = "parse" /\ parsed # << >> /\ args.cmd = "rm") =>
    /\ parsed[1].ok => parsed[1].dest = DirTargets
    /\ ~parsed[1].ok <=> DirTargets = << >>
    /\ fs = fs0

\* Witness of C36: of two targets the second alone is a directory, and the
\* result holds it alone.
C36_Witness ==
  /\ op = "parse" /\ parsed # << >> /\ args.cmd = "rm"
  /\ Len(args.targets) = 2
  /\ metadata(fs0, args.targets[1]) # "dir"
  /\ parsed[1].ok /\ parsed[1].dest = << args.targets[2] >>

\* Witness of C36: two different directories are kept in the order given,
\* the deeper one first.
C36_WitnessOrder ==
  /\ op = "parse" /\ parsed # << >> /\ args.cmd = "rm"
  /\ parsed[1].ok /\ parsed[1].dest = << << "a", "b" >>, << "a" >> >>

\* Witness of C36: no target is a directory and parse_args returned the
\* error.
C36_WitnessError ==
  /\ op = "parse" /\ parsed # << >> /\ args.cmd = "rm"
  /\ ~parsed[1].ok /\ parsed[1].err = "No target directories specified"
  /\ \E i \in 1..Len(args.targets) : fs0[args.targets[i]].kind = "file"

\* The Flag constant of a command-line option.
FlagOf(name) ==
  CASE name = "nodelete" -> Flag_NO_DELETE
    [] name = "secure" -> Flag_SECURE
    [] name = "verbose" -> Flag_VERBOSE
    [] name = "sequential" -> Flag_SEQUENTIAL

\* C37: the Flag set of the result contains NO_DELETE, SECURE, VERBOSE or
\* SEQUENTIAL exactly when nodelete, secure, verbose or sequential is
\* present, and no other bit; the name at index i of FLAG_NAMES belongs to
\* the Flag constant of value 1 << i.
C37_FlagsMatchOptions ==
  /\ \A i \in 1..Len(FLAG_NAMES) : FlagOf(FLAG_NAMES[i]) = 2^(i - 1)
  /\ (op = "parse" /\ parsed # << >> /\ parsed[1].ok) =>
       /\ \A name \in { "nodelete", "secure", "verbose", "sequential" } :
            Contains(parsed[1].flags, FlagOf(name)) <=> name \in args.options
       /\ BitAndFrom(parsed[1].flags, Flag_all, 0) = parsed[1].flags

\* Witness of C37: with secure and sequential present the result's Flag set
\* is SECURE | SEQUENTIAL.
C37_Witness ==
  /\ op = "parse" /\ parsed # << >> /\ parsed[1].ok
  /\ args.options = { "secure", "sequential" }
  /\ parsed[1].flags = Flag_SECURE + Flag_SEQUENTIAL

=============================================================================
